---- MODULE Spec2Model ----
(***************************************************************************)
(* A model of github.com/thecxx/openllm: the streaming and blocking chat   *)
(* calls of the OpenAI and Anthropic adapters, the tool-call accumulator,  *)
(* request construction and the persisted message codec.                   *)
(*                                                                         *)
(* Go strings are TLA+ strings, a nil pointer / absent value is <<>> and a *)
(* present one is <<v>>, Go errors are strings with "nil" for no error.    *)
(* The backend SDK (the stream of frames, the blocking response) and the   *)
(* caller's StreamWatcher are collaborators: what they deliver or return   *)
(* is chosen nondeterministically from small sets.                         *)
(***************************************************************************)
EXTENDS Integers, Sequences, FiniteSets, TLC

VARIABLES
    backend,     \* which adapter runs the call: "openai", "anthropic", "openai_r1"
    mode,        \* "stream" (ChatCompletionStream), "block" (ChatCompletion), "off"
    hasWatcher,  \* options.watcher != nil
    pc,          \* where the operation stands: "start", "loop" (frame loop), "stop"
                 \* (after the loop), "call" (blocking), "done" (returned); "options",
                 \* "built" for a request; "message", "encoded", "decoded", "panic"
    todo,        \* the deltas of the current frame not yet handled, in code order
    emitted,     \* history: the frames the backend has delivered so far
    ctxDone,     \* the caller's context is cancelled
    role,        \* var role string
    content,     \* content strings.Builder
    reasoning,   \* reasoning strings.Builder
    refusal,     \* refusal strings.Builder
    callm,       \* callm map[int]*toolcall
    log,         \* history: the watcher callbacks invoked, in order, with what they returned
    resp,        \* the returned Response: <<>> is nil
    err,         \* the returned error: "nil" is nil
    opts,        \* the ChatOptions of a request under construction
    req,         \* the native request makeRequest built: <<>> before it ran
    messages,    \* the messages handed to the call whose request is built
    applied,     \* history: the prompt and tool options of this invocation, in order
    invocation,  \* history: which invocation on this Model builds its request (1-based)
    msg,         \* codec: the message handed to EncodeMessage
    wire,        \* codec: the encoded payload, <<>> before encoding
    target,      \* codec: the model handed to DecodeMessage
    decoded,     \* codec: the decoded message, <<>> before decoding
    issued,      \* history: how many backend calls (blocking calls, stream
                 \* creations) the running invocation has issued
    failure,     \* history: <<>> until the backend fails the running invocation,
                 \* then <<the error it raised and what had happened by then>>
    parked       \* a second invocation on the same Model, while the other one
                 \* runs: <<>> when there is none, else <<its local state>>

vars == <<backend, mode, hasWatcher, pc, todo, emitted, ctxDone, role, content,
          reasoning, refusal, callm, log, resp, err, opts, req, messages, applied, invocation,
          msg, wire,
          target, decoded, issued, failure, parked>>

callVars  == <<backend, mode, hasWatcher, pc, todo, emitted, ctxDone, role, content,
               reasoning, refusal, callm, log, resp, err>>
reqVars   == <<opts, req, messages, applied, invocation>>
codecVars == <<msg, wire, target, decoded>>
sideVars  == <<issued, failure, parked>>

(***************************************************************************)
(* Bounds                                                                  *)
(***************************************************************************)
MaxFrames == 3

\* frames per invocation when two invocations run side by side
MaxConcurrentFrames == 2

Nil == <<>>

RECURSIVE Concat(_)
Concat(ss) == IF ss = <<>> THEN <<>> ELSE Head(ss) \o Concat(Tail(ss))

Perms(S) == {s \in [1..Cardinality(S) -> S] : \A x \in S : \E k \in DOMAIN s : s[k] = x}

(***************************************************************************)
(* Errors                                                                  *)
(***************************************************************************)
ErrEmptyChoices == "ErrEmptyChoices"
ErrCanceled     == "context.Canceled"
ErrTransport    == "transport"
ErrMarshal      == "json.Marshal"
ErrRequest      == "makeRequest"
WatcherErrs     == {"watcherErrA", "watcherErrB"}

(***************************************************************************)
(* constants: roles, content part types, tool type                         *)
(***************************************************************************)
RoleUser      == "user"
RoleAssistant == "assistant"
RoleSystem    == "system"
RoleTool      == "tool"
ContentPartTypeText     == "text"
ContentPartTypeImageURL == "image_url"
ToolTypeFunction == "function"

TextPart(text) == [Type |-> ContentPartTypeText, Text |-> text]

(***************************************************************************)
(* funcall and toolcall (tool.go)                                          *)
(***************************************************************************)
funcall(name, args) == [name |-> name, args |-> args, buff |-> ""]

toolcall(index, id, type_, fcall) ==
    [index |-> index, id |-> id, type_ |-> type_, fcall |-> fcall]

Arguments(fcall) == IF fcall.args # "" THEN fcall.args ELSE fcall.buff

writeArgsPrepend(fcall, delta) == [fcall EXCEPT !.buff = delta \o @]

writeArgs(fcall, delta) == [fcall EXCEPT !.buff = @ \o delta]

(***************************************************************************)
(* What the backends put on the wire.  An OpenAI frame is a               *)
(* ChatCompletionStreamResponse: zero or one choice whose Delta carries    *)
(* role, the three text deltas and a list of tool-call deltas.  An         *)
(* Anthropic frame is one MessageStreamEventUnion.                         *)
(***************************************************************************)
ToolDelta(index, type, id, name, args) ==
    [index |-> index, type |-> type, id |-> id, name |-> name, args |-> args]

Chunk(r, rea, con, ref, tcs) ==
    [choices |-> 1, role |-> r, reasoning |-> rea, content |-> con,
     refusal |-> ref, tcs |-> tcs]

NoChoices == [Chunk("", "", "", "", <<>>) EXCEPT !.choices = 0]

OpenAIFrames ==
    { NoChoices,
      Chunk(RoleAssistant, "", "", "", <<>>),
      Chunk(RoleUser, "", "c", "", <<>>),
      Chunk("", "r", "d", "", <<>>),
      Chunk("", "", "", "x", <<>>),
      Chunk("", "", "c", "", <<ToolDelta(<<0>>, ToolTypeFunction, "i0", "g", "")>>),
      Chunk("", "", "", "", <<ToolDelta(<<1>>, ToolTypeFunction, "i1", "f", "a")>>),
      Chunk("", "", "", "", <<ToolDelta(<<0>>, ToolTypeFunction, "j0", "f", "")>>),
      Chunk("", "", "", "", <<ToolDelta(<<0>>, "", "", "", "b")>>),
      Chunk("", "", "", "", <<ToolDelta(<<1>>, "", "", "", "a"),
                              ToolDelta(<<0>>, "", "", "", "a")>>),
      Chunk("", "", "", "", <<ToolDelta(Nil, ToolTypeFunction, "i2", "f", "a")>>) }

Event(type, r, index, kind, id, name, text) ==
    [type |-> type, role |-> r, index |-> index, kind |-> kind, id |-> id,
     name |-> name, text |-> text]

AnthropicEvents ==
    { Event("message_start", RoleAssistant, 0, "", "", "", ""),
      Event("message_start", "", 0, "", "", "", ""),
      Event("content_block_start", "", 0, "text", "", "", ""),
      Event("content_block_start", "", 1, "tool_use", "i1", "f", ""),
      Event("content_block_start", "", 0, "tool_use", "i0", "g", ""),
      Event("content_block_start", "", 0, "tool_use", "j0", "f", ""),
      Event("content_block_delta", "", 0, "text_delta", "", "", "c"),
      Event("content_block_delta", "", 0, "text_delta", "", "", ""),
      Event("content_block_delta", "", 0, "thinking_delta", "", "", "r"),
      Event("content_block_delta", "", 0, "input_json_delta", "", "", "a"),
      Event("content_block_delta", "", 0, "input_json_delta", "", "", "b"),
      Event("content_block_delta", "", 1, "input_json_delta", "", "", "a"),
      Event("content_block_delta", "", 0, "input_json_delta", "", "", ""),
      Event("content_block_delta", "", 0, "signature_delta", "", "", "s"),
      Event("message_stop", "", 0, "", "", "", "") }

\* the frames tried when two invocations run side by side: both declare a
\* call at index 0, under different ids, and send text and fragments
ConcurrentFrames(b) ==
    IF b = "anthropic"
    THEN { Event("content_block_start", "", 0, "tool_use", "i0", "g", ""),
           Event("content_block_start", "", 0, "tool_use", "j0", "f", ""),
           Event("content_block_delta", "", 0, "text_delta", "", "", "c"),
           Event("content_block_delta", "", 0, "input_json_delta", "", "", "b") }
    ELSE { Chunk("", "", "c", "", <<ToolDelta(<<0>>, ToolTypeFunction, "i0", "g", "")>>),
           Chunk("", "", "", "", <<ToolDelta(<<0>>, ToolTypeFunction, "j0", "f", "")>>),
           Chunk("", "", "", "", <<ToolDelta(<<0>>, "", "", "", "b")>>) }

(***************************************************************************)
(* The deltas one frame makes the loop body handle, in the order the code  *)
(* reaches them.  slot names the delta inside its frame: 0 for a text      *)
(* field, t for the t-th tool-call delta.                                  *)
(***************************************************************************)
Step(kind, chunk, index, id, name, slot) ==
    [kind |-> kind, chunk |-> chunk, index |-> index, id |-> id, name |-> name,
     slot |-> slot]

TextStep(kind, chunk) == Step(kind, chunk, 0, "", "", 0)

\* CallSteps reading an absent index as index 0
CallStepsIndexDefaulted(call, t) ==
    LET index == IF call.index = Nil THEN 0 ELSE call.index[1]
    IN  (IF call.type = ToolTypeFunction /\ call.name # ""
         THEN <<Step("start", call.args, index, call.id, call.name, t)>>
         ELSE <<>>)
        \o
        (IF call.args # ""
         THEN <<Step("args", call.args, index, "", "", t)>>
         ELSE <<>>)

\* openai.go 692-725: one element of choice.Delta.ToolCalls
CallSteps(call, t) ==
    IF call.index = Nil THEN <<>>
    ELSE (IF call.type = ToolTypeFunction /\ call.name # ""
          THEN <<Step("start", call.args, call.index[1], call.id, call.name, t)>>
          ELSE <<>>)
         \o
         (IF call.args # ""
          THEN <<Step("args", call.args, call.index[1], "", "", t)>>
          ELSE <<>>)

\* ToolSteps walking the list from its end
ToolStepsReversed(f) ==
    Concat([t \in 1..Len(f.tcs) |->
               CallSteps(f.tcs[Len(f.tcs) + 1 - t], Len(f.tcs) + 1 - t)])

ToolSteps(f) == Concat([t \in 1..Len(f.tcs) |-> CallSteps(f.tcs[t], t)])

\* openai.go 664-726
OpenAISteps(f) ==
    (IF f.reasoning # "" THEN <<TextStep("reasoning", f.reasoning)>> ELSE <<>>)
    \o (IF f.content # "" THEN <<TextStep("content", f.content)>> ELSE <<>>)
    \o (IF f.refusal # "" THEN <<TextStep("refusal", f.refusal)>> ELSE <<>>)
    \o ToolSteps(f)

\* openai.go 176-221 (the earlier revision of the loop body)
OpenAIStepsR1(f) ==
    IF Len(f.tcs) <= 0
    THEN (IF f.content # "" THEN <<TextStep("content", f.content)>> ELSE <<>>)
    ELSE ToolSteps(f)

\* anthropic.go 175-224
AnthropicSteps(ev) ==
    CASE ev.type = "content_block_start" /\ ev.kind = "tool_use" ->
            <<Step("start", "", ev.index, ev.id, ev.name, 1)>>
      [] ev.type = "content_block_delta" /\ ev.kind = "text_delta" ->
            <<TextStep("content", ev.text)>>
      [] ev.type = "content_block_delta" /\ ev.kind = "thinking_delta" ->
            <<TextStep("reasoning", ev.text)>>
      [] ev.type = "content_block_delta" /\ ev.kind = "input_json_delta" ->
            <<Step("args", ev.text, ev.index, "", "", 1)>>
      [] OTHER -> <<>>

Steps(b, f) ==
    CASE b = "openai"    -> IF f.choices <= 0 THEN <<>> ELSE OpenAISteps(f)
      [] b = "openai_r1" -> IF f.choices <= 0 THEN <<>> ELSE OpenAIStepsR1(f)
      [] b = "anthropic" -> AnthropicSteps(f)

\* CaptureRole taking the role of every frame that carries one
CaptureRoleLatest(b, f, r) ==
    IF b = "anthropic"
    THEN IF f.type = "message_start" /\ f.role # "" THEN RoleAssistant ELSE r
    ELSE IF f.choices > 0 /\ f.role # "" THEN f.role ELSE r

\* openai.go 659-662, anthropic.go 176-179
CaptureRole(b, f, r) ==
    IF b = "anthropic"
    THEN IF f.type = "message_start" /\ f.role # "" THEN RoleAssistant ELSE r
    ELSE IF f.choices > 0 /\ f.role # "" /\ r = "" THEN f.role ELSE r

(***************************************************************************)
(* The watcher.  A callback returns nil or an error of the caller's; the   *)
(* log keeps each invocation: which callback, its chunk, the ToolCall it   *)
(* was handed (as it was at that moment), the kind, frame and slot of the  *)
(* delta it was made for, and what it returned.                            *)
(***************************************************************************)
Returns == IF hasWatcher THEN {"nil"} \cup WatcherErrs ELSE {"nil"}

Invoked(cb, kind, chunk, tc, slot, ret) ==
    [cb |-> cb, kind |-> kind, chunk |-> chunk, tc |-> tc, frame |-> Len(emitted),
     slot |-> slot, ret |-> ret]

Notify(cb, kind, chunk, tc, slot, ret) ==
    log' = IF hasWatcher THEN Append(log, Invoked(cb, kind, chunk, tc, slot, ret))
           ELSE log

Return(r, e) == resp' = r /\ err' = e /\ pc' = "done"

\* the errors makeRequest returns: both adapters end in "return req, nil" and
\* their convertMessage returns a nil error on every path
MakeRequestErrors == {}

\* a backend call that is issued a second time
IssueAgain == issued' = issued + 2

\* the one backend call of an invocation: CreateChatCompletion,
\* CreateChatCompletionStream, Messages.New, Messages.NewStreaming
Issue == issued' = issued + 1

\* the backend's failure taken for the end of the stream
FailedSwallowed(e, n) ==
    /\ failure' = <<[err |-> e, log |-> log, received |-> Len(emitted), issued |-> n]>>
    /\ pc' = "stop"
    /\ UNCHANGED <<resp, err>>

\* "if err != nil { return nil, err }" after a call to the backend SDK, the
\* n-th call of the invocation included
Failed(e, n) ==
    /\ failure' = <<[err |-> e, log |-> log, received |-> Len(emitted), issued |-> n]>>
    /\ Return(Nil, e)

(***************************************************************************)
(* Results                                                                 *)
(***************************************************************************)
InsertByIndex(tc, sorted) ==
    LET k == Cardinality({j \in DOMAIN sorted : sorted[j].index < tc.index})
    IN  SubSeq(sorted, 1, k) \o <<tc>> \o SubSeq(sorted, k + 1, Len(sorted))

SortUnsorted(tcalls) == tcalls

\* sort.Slice(tcalls, func(i, j int) bool { return tcalls[i].Index() < tcalls[j].Index() })
RECURSIVE SortByIndex(_)
SortByIndex(tcalls) ==
    IF tcalls = <<>> THEN <<>>
    ELSE InsertByIndex(Head(tcalls), SortByIndex(Tail(tcalls)))

\* for _, tcall := range callm { tcalls = append(tcalls, tcall) } in the map's order
Collect(order) == [k \in DOMAIN order |-> callm[order[k]]]

\* a copy that takes the args field and leaves the buffered fragments behind
SnapshotArgsOnly(tc) == toolcall(tc.index, tc.id, tc.type_, funcall(tc.fcall.name, tc.fcall.args))

\* the copies the answer keeps (openai.go 784-801)
Snapshot(tc) == toolcall(tc.index, tc.id, tc.type_, funcall(tc.fcall.name, Arguments(tc.fcall)))

\* llmmsg (message.go 146-155)
message(r, parts, rea, ref, tcs, tcid) ==
    [type |-> "llmmsg", role |-> r, content |-> parts, reasoning |-> rea,
     refusal |-> ref, toolcalls |-> tcs, toolCallID |-> tcid]

\* openai.ToolCall; Index is a pointer
OpenAIToolCall(index, id, type, name, args) ==
    [Index |-> index, ID |-> id, Type |-> type,
     Function |-> [Name |-> name, Arguments |-> args]]

\* openai.ChatCompletionMessage as held by the earlier llmmsg (openai.go 383-386)
rawmsg(r, con, multi, tcs, tcid) ==
    [type |-> "rawmsg", Role |-> r, Content |-> con, MultiContent |-> multi,
     ToolCalls |-> tcs, ToolCallID |-> tcid]

response(answer, tcalls) == [answer |-> answer, tcalls |-> tcalls]

\* openai.go 735-810
OpenAIStreamResponse(tcalls) ==
    response(message(role,
                     IF content # "" THEN <<TextPart(content)>> ELSE <<>>,
                     reasoning, refusal,
                     [k \in DOMAIN tcalls |-> Snapshot(tcalls[k])], ""),
             tcalls)

\* openai.go 230-263
OpenAIStreamResponseR1(tcalls) ==
    response(rawmsg(role, content, <<>>,
                    [k \in DOMAIN tcalls |->
                        OpenAIToolCall(<<tcalls[k].index>>, tcalls[k].id, ToolTypeFunction,
                                       tcalls[k].fcall.name, Arguments(tcalls[k].fcall))],
                    ""),
             tcalls)

\* anthropic.go 249-276
AnthropicStreamResponse(tcalls) ==
    response(message(role, <<TextPart(content)>>, reasoning, "", tcalls, ""), tcalls)

StreamResponse(tcalls) ==
    CASE backend = "openai"    -> OpenAIStreamResponse(tcalls)
      [] backend = "openai_r1" -> OpenAIStreamResponseR1(tcalls)
      [] backend = "anthropic" -> AnthropicStreamResponse(tcalls)

(***************************************************************************)
(* ChatCompletionStream                                                    *)
(***************************************************************************)
\* The head of the calls (openai.go 488-497, 608-627 and 122-141, anthropic.go
\* 49-58 and 148-163): makeRequest fails, or the OpenAI stream cannot be
\* created, or the call goes on to the SDK.
Open ==
    /\ pc = "start"
    /\ \/ \E e \in MakeRequestErrors : Return(Nil, e) /\ UNCHANGED <<issued, failure>>
       \/ /\ mode = "stream" /\ backend # "anthropic"
          /\ Issue
          /\ Failed(ErrTransport, issued + 1)
       \/ /\ pc' = IF mode = "stream" THEN "loop" ELSE "call"
          /\ IF mode = "stream" THEN Issue ELSE UNCHANGED issued
          /\ UNCHANGED <<resp, err, failure>>
    /\ UNCHANGED <<backend, mode, hasWatcher, todo, emitted, ctxDone, role, content,
                   reasoning, refusal, callm, log>>
    /\ UNCHANGED <<reqVars, codecVars, parked>>

Running == mode = "stream" /\ pc = "loop"

AtBoundary == Running /\ todo = <<>>

InFrame(kind) == Running /\ todo # <<>> /\ Head(todo).kind = kind

\* The caller cancels the context while the call runs.
Cancel ==
    /\ mode = "stream" /\ pc # "done" /\ ~ctxDone
    /\ ctxDone' = TRUE
    /\ UNCHANGED <<backend, mode, hasWatcher, pc, todo, emitted, role, content,
                   reasoning, refusal, callm, log, resp, err>>
    /\ UNCHANGED <<reqVars, codecVars, sideVars>>

\* what the SDK's receive can end with other than a frame: the end of the
\* stream, or a failure, which is the context's error once the context the
\* request is bound to is cancelled
StreamEnds == IF ctxDone THEN {"EOF", ErrCanceled} ELSE {"EOF", ErrTransport}

\* what the backend may deliver next
Arriving ==
    IF parked # Nil THEN ConcurrentFrames(backend)
    ELSE IF backend = "anthropic" THEN AnthropicEvents ELSE OpenAIFrames

\* how many frames a stream is followed for
FrameCap == IF parked # Nil THEN MaxConcurrentFrames ELSE MaxFrames

TakeFrame(f) ==
    /\ emitted' = Append(emitted, f)
    /\ role' = CaptureRole(backend, f, role)
    /\ todo' = Steps(backend, f)
    /\ UNCHANGED <<pc, resp, err>>

\* openai.go 638-662 (and 150-174): the select on ctx.Done(), stream.Recv(), the
\* empty-choices skip and the role capture.
OpenAIRecv ==
    /\ AtBoundary /\ backend \in {"openai", "openai_r1"}
    /\ IF ctxDone
       THEN Return(Nil, ErrCanceled) /\ UNCHANGED <<emitted, role, todo, failure>>
       ELSE \/ \E f \in Arriving :
                  Len(emitted) < FrameCap /\ TakeFrame(f) /\ UNCHANGED failure
            \/ \E e \in StreamEnds :
                  /\ IF e = "EOF"
                     THEN pc' = "stop" /\ UNCHANGED <<resp, err, failure>>
                     ELSE Failed(e, issued)
                  /\ UNCHANGED <<emitted, role, todo>>
    /\ UNCHANGED <<backend, mode, hasWatcher, ctxDone, content, reasoning, refusal,
                   callm, log>>
    /\ UNCHANGED <<reqVars, codecVars, issued, parked>>

\* anthropic.go 172-179 and 227-231: stream.Next(), stream.Current(), the role
\* capture, and stream.Err() once Next reports the end.
AnthropicNext ==
    /\ AtBoundary /\ backend = "anthropic"
    /\ \/ \E ev \in Arriving :
             Len(emitted) < FrameCap /\ TakeFrame(ev) /\ UNCHANGED failure
       \/ \E e \in StreamEnds :
             /\ IF e = "EOF"
                THEN pc' = "stop" /\ UNCHANGED <<resp, err, failure>>
                ELSE Failed(e, issued)
             /\ UNCHANGED <<emitted, role, todo>>
    /\ UNCHANGED <<backend, mode, hasWatcher, ctxDone, content, reasoning, refusal,
                   callm, log>>
    /\ UNCHANGED <<reqVars, codecVars, issued, parked>>

\* Deliver with the callback's error dropped
DeliverIgnoreErr(ret, stored) ==
    /\ stored
    /\ todo' = Tail(todo)
    /\ UNCHANGED <<pc, resp, err>>

\* Deliver handing back what was assembled so far next to the error
DeliverPartial(ret, stored) ==
    IF ret # "nil"
    THEN /\ Return(<<StreamResponse(<<>>)>>, ret)
         /\ UNCHANGED <<todo, content, reasoning, refusal, callm>>
    ELSE /\ stored
         /\ todo' = Tail(todo)
         /\ UNCHANGED <<pc, resp, err>>

\* After a callback: its error ends the call, otherwise the delta is stored.
Deliver(ret, stored) ==
    IF ret # "nil"
    THEN /\ Return(Nil, ret)
         /\ UNCHANGED <<todo, content, reasoning, refusal, callm>>
    ELSE /\ stored
         /\ todo' = Tail(todo)
         /\ UNCHANGED <<pc, resp, err>>

\* openai.go 664-671, anthropic.go 207-213
OnReasoning ==
    /\ InFrame("reasoning")
    /\ \E ret \in Returns :
          /\ Notify("OnReasoning", "reasoning", Head(todo).chunk, Nil, Head(todo).slot, ret)
          /\ Deliver(ret, /\ reasoning' = reasoning \o Head(todo).chunk
                          /\ UNCHANGED <<content, refusal, callm>>)
    /\ UNCHANGED <<backend, mode, hasWatcher, emitted, ctxDone, role>>
    /\ UNCHANGED <<reqVars, codecVars, sideVars>>

\* openai.go 673-680 (and 177-184), anthropic.go 200-206
OnContent ==
    /\ InFrame("content")
    /\ \E ret \in Returns :
          /\ Notify("OnContent", "content", Head(todo).chunk, Nil, Head(todo).slot, ret)
          /\ Deliver(ret, /\ content' = content \o Head(todo).chunk
                          /\ UNCHANGED <<reasoning, refusal, callm>>)
    /\ UNCHANGED <<backend, mode, hasWatcher, emitted, ctxDone, role>>
    /\ UNCHANGED <<reqVars, codecVars, sideVars>>

\* openai.go 682-689
OnRefusal ==
    /\ InFrame("refusal")
    /\ \E ret \in Returns :
          /\ Notify("OnRefusal", "refusal", Head(todo).chunk, Nil, Head(todo).slot, ret)
          /\ Deliver(ret, /\ refusal' = refusal \o Head(todo).chunk
                          /\ UNCHANGED <<content, reasoning, callm>>)
    /\ UNCHANGED <<backend, mode, hasWatcher, emitted, ctxDone, role>>
    /\ UNCHANGED <<reqVars, codecVars, sideVars>>

\* the toolcall a start delta builds: openai.go 698-705, anthropic.go 183-190;
\* the earlier revision (openai.go 192-200) also sets args from the delta
NewToolCall(d) ==
    toolcall(d.index, d.id, ToolTypeFunction,
             funcall(d.name, IF backend = "openai_r1" THEN d.chunk ELSE ""))

\* Put leaving a call that is already at the index in place
PutKeep(m, i, tc) ==
    IF i \in DOMAIN m THEN m
    ELSE [k \in DOMAIN m \cup {i} |-> IF k = i THEN tc ELSE m[k]]

Put(m, i, tc) == [k \in DOMAIN m \cup {i} |-> IF k = i THEN tc ELSE m[k]]

\* openai.go 697-712 (and 191-207), anthropic.go 182-196
ToolCallStart ==
    /\ InFrame("start")
    /\ LET d == Head(todo)
           tcall == NewToolCall(d)
       IN  \E ret \in Returns :
              /\ Notify("OnToolCall", "start", "", tcall, d.slot, ret)
              /\ Deliver(ret, /\ callm' = Put(callm, d.index, tcall)
                              /\ UNCHANGED <<content, reasoning, refusal>>)
    /\ UNCHANGED <<backend, mode, hasWatcher, emitted, ctxDone, role>>
    /\ UNCHANGED <<reqVars, codecVars, sideVars>>

\* ToolCallArgs appending the fragment before it notifies the watcher
ToolCallArgsAppendFirst ==
    /\ InFrame("args")
    /\ Head(todo).index \in DOMAIN callm
    /\ LET d == Head(todo)
           tcall == [callm[d.index] EXCEPT !.fcall = writeArgs(@, d.chunk)]
       IN  \E ret \in Returns :
              /\ Notify("OnToolCall", "args", d.chunk, tcall, d.slot, ret)
              /\ Deliver(ret, /\ callm' = [callm EXCEPT ![d.index] = tcall]
                              /\ UNCHANGED <<content, reasoning, refusal>>)
    /\ UNCHANGED <<backend, mode, hasWatcher, emitted, ctxDone, role>>
    /\ UNCHANGED <<reqVars, codecVars, sideVars>>

\* openai.go 714-724 (and 209-219), anthropic.go 214-222, when found
ToolCallArgs ==
    /\ InFrame("args")
    /\ Head(todo).index \in DOMAIN callm
    /\ LET d == Head(todo)
           tcall == callm[d.index]
       IN  \E ret \in Returns :
              /\ Notify("OnToolCall", "args", d.chunk, tcall, d.slot, ret)
              /\ Deliver(ret, /\ callm' = [callm EXCEPT ![d.index].fcall =
                                                writeArgs(@, d.chunk)]
                              /\ UNCHANGED <<content, reasoning, refusal>>)
    /\ UNCHANGED <<backend, mode, hasWatcher, emitted, ctxDone, role>>
    /\ UNCHANGED <<reqVars, codecVars, sideVars>>

\* ToolCallArgsNotFound opening a call at the index for the fragment
ToolCallArgsNotFoundCreates ==
    /\ InFrame("args")
    /\ Head(todo).index \notin DOMAIN callm
    /\ callm' = Put(callm, Head(todo).index,
                    toolcall(Head(todo).index, "", ToolTypeFunction,
                             writeArgs(funcall("", ""), Head(todo).chunk)))
    /\ todo' = Tail(todo)
    /\ UNCHANGED <<backend, mode, hasWatcher, pc, emitted, ctxDone, role, content,
                   reasoning, refusal, log, resp, err>>
    /\ UNCHANGED <<reqVars, codecVars, sideVars>>

\* the same lines when callm has no call at the index: nothing happens
ToolCallArgsNotFound ==
    /\ InFrame("args")
    /\ Head(todo).index \notin DOMAIN callm
    /\ todo' = Tail(todo)
    /\ UNCHANGED <<backend, mode, hasWatcher, pc, emitted, ctxDone, role, content,
                   reasoning, refusal, callm, log, resp, err>>
    /\ UNCHANGED <<reqVars, codecVars, sideVars>>

\* Stop without the OnStop notification
StopSilent ==
    /\ mode = "stream" /\ pc = "stop"
    /\ \E order \in Perms(DOMAIN callm) :
          Return(<<StreamResponse(SortByIndex(Collect(order)))>>, "nil")
    /\ UNCHANGED <<backend, mode, hasWatcher, todo, emitted, ctxDone, role, content,
                   reasoning, refusal, callm, log>>
    /\ UNCHANGED <<reqVars, codecVars, sideVars>>

\* openai.go 729-810 (and 224-263), anthropic.go 233-276: OnStop, then the
\* calls of callm collected in the map's iteration order, sorted and returned.
Stop ==
    /\ mode = "stream" /\ pc = "stop"
    /\ \E ret \in Returns :
          /\ Notify("OnStop", "stop", "", Nil, 0, ret)
          /\ IF ret # "nil"
             THEN Return(Nil, ret)
             ELSE \E order \in Perms(DOMAIN callm) :
                     Return(<<StreamResponse(SortByIndex(Collect(order)))>>, "nil")
    /\ UNCHANGED <<backend, mode, hasWatcher, todo, emitted, ctxDone, role, content,
                   reasoning, refusal, callm>>
    /\ UNCHANGED <<reqVars, codecVars, sideVars>>

(***************************************************************************)
(* ChatCompletion (blocking)                                               *)
(***************************************************************************)
MaxBlocks == 2

ToolCallMsg(index, type, id, name, args) ==
    [Index |-> index, ID |-> id, Type |-> type, Name |-> name, Arguments |-> args]

ChatMessage(r, con, rea, ref, tcs) ==
    [Role |-> r, Content |-> con, ReasoningContent |-> rea, Refusal |-> ref,
     MultiContent |-> <<>>, ToolCalls |-> tcs]

OpenAIToolCallLists ==
    { <<>>,
      <<ToolCallMsg(<<0>>, ToolTypeFunction, "i0", "g", "a")>>,
      <<ToolCallMsg(<<0>>, ToolTypeFunction, "i0", "g", "a"),
        ToolCallMsg(<<1>>, ToolTypeFunction, "i1", "f", "b")>>,
      <<ToolCallMsg(<<1>>, ToolTypeFunction, "i1", "f", "b"),
        ToolCallMsg(<<0>>, ToolTypeFunction, "i0", "g", "")>>,
      <<ToolCallMsg(Nil, ToolTypeFunction, "i0", "g", "a")>>,
      <<ToolCallMsg(<<0>>, ToolTypeFunction, "i0", "", "a")>>,
      <<ToolCallMsg(<<0>>, "custom", "i0", "g", "a")>> }

\* what CreateChatCompletion can answer: no choice, or one choice with a message
OpenAIResponses ==
    {[Choices |-> <<>>]}
    \cup {[Choices |-> <<ChatMessage(RoleAssistant, con, rea, ref, tcs)>>] :
             con \in {"", "c"}, rea \in {"", "r"}, ref \in {"", "x"},
             tcs \in OpenAIToolCallLists}

Block(kind, text, id, name, input) ==
    [kind |-> kind, text |-> text, id |-> id, name |-> name, input |-> input]

\* input is the tool-use block's raw JSON: <<json>> when it marshals, <<>> when
\* json.Marshal rejects it
AnthropicBlocks ==
    { Block("text", "c", "", "", Nil),
      Block("thinking", "r", "", "", Nil),
      Block("tool_use", "", "i0", "g", <<"a">>),
      Block("tool_use", "", "i1", "f", <<"b">>),
      Block("tool_use", "", "i2", "f", Nil) }

SeqsUpTo(S, n) == UNION {[1..k -> S] : k \in 0..n}

AnthropicResponses == {[Content |-> bs] : bs \in SeqsUpTo(AnthropicBlocks, MaxBlocks)}

\* openai.go 516-532
OpenAIUsable(call) ==
    call.Index # Nil /\ call.Type = ToolTypeFunction /\ call.Name # ""

OpenAIToolCalls(calls) ==
    LET kept == SelectSeq(calls, OpenAIUsable)
    IN  [k \in DOMAIN kept |->
            toolcall(kept[k].Index[1], kept[k].ID, ToolTypeFunction,
                     funcall(kept[k].Name, kept[k].Arguments))]

\* openai.go 505-601
OpenAIAnswerEmpty(chatResp) ==
    IF Len(chatResp.Choices) < 0
    THEN <<Nil, ErrEmptyChoices>>
    ELSE <<<<response(message("", <<>>, "", "", <<>>, ""), <<>>)>>, "nil">>

OpenAIAnswer(chatResp) ==
    IF Len(chatResp.Choices) <= 0
    THEN <<Nil, ErrEmptyChoices>>
    ELSE LET choice == chatResp.Choices[1]
             tcalls == OpenAIToolCalls(choice.ToolCalls)
         IN  << <<response(message(choice.Role,
                                   IF choice.Content # ""
                                   THEN <<TextPart(choice.Content)>> ELSE <<>>,
                                   choice.ReasoningContent, choice.Refusal,
                                   [k \in DOMAIN tcalls |-> Snapshot(tcalls[k])], ""),
                           tcalls)>>,
                "nil" >>

\* anthropic.go 76-98: the loop over chatResp.Content; acc.err stops it
RECURSIVE AnthropicFold(_, _)
AnthropicFold(blocks, acc) ==
    IF blocks = <<>> \/ acc.err # "nil" THEN acc
    ELSE LET b == Head(blocks)
         IN  AnthropicFold(Tail(blocks),
                CASE b.kind = "text" -> [acc EXCEPT !.content = @ \o b.text]
                  [] b.kind = "thinking" -> [acc EXCEPT !.reasoning = @ \o b.text]
                  [] b.kind = "tool_use" ->
                        IF b.input = Nil
                        THEN [acc EXCEPT !.err = ErrMarshal]
                        ELSE [acc EXCEPT !.tcalls = Append(@,
                                 toolcall(Len(acc.tcalls), b.id, ToolTypeFunction,
                                          funcall(b.name, b.input[1])))]
                  [] OTHER -> acc)

\* anthropic.go 66-140
AnthropicAnswer(chatResp) ==
    IF Len(chatResp.Content) <= 0
    THEN <<Nil, ErrEmptyChoices>>
    ELSE LET acc == AnthropicFold(chatResp.Content,
                       [content |-> "", reasoning |-> "", tcalls |-> <<>>, err |-> "nil"])
         IN  IF acc.err # "nil"
             THEN <<Nil, acc.err>>
             ELSE << <<response(message(RoleAssistant, <<TextPart(acc.content)>>,
                                        acc.reasoning, "", acc.tcalls, ""),
                                acc.tcalls)>>,
                     "nil" >>

\* openai.go 487-601, anthropic.go 48-141: one call to the SDK, which fails or
\* answers; the answer is mapped or rejected.
ChatCompletion ==
    /\ mode = "block" /\ pc = "call"
    /\ \/ Failed(ErrTransport, issued + 1) /\ UNCHANGED emitted
       \/ \E chatResp \in (IF backend = "anthropic" THEN AnthropicResponses
                           ELSE OpenAIResponses) :
             LET out == IF backend = "anthropic" THEN AnthropicAnswer(chatResp)
                        ELSE OpenAIAnswer(chatResp)
             IN  /\ emitted' = <<chatResp>>
                 /\ Return(out[1], out[2])
                 /\ UNCHANGED failure
    /\ Issue
    /\ UNCHANGED <<backend, mode, hasWatcher, todo, ctxDone, role, content,
                   reasoning, refusal, callm, log>>
    /\ UNCHANGED <<reqVars, codecVars, parked>>

(***************************************************************************)
(* The calls of the current adapters                                       *)
(***************************************************************************)
CallInit(backends, modes) ==
    /\ backend \in backends
    /\ mode \in modes
    /\ hasWatcher \in (IF mode = "stream" THEN BOOLEAN ELSE {FALSE})
    /\ pc = "start"
    /\ todo = <<>>
    /\ emitted = <<>>
    /\ ctxDone = FALSE
    /\ role = ""
    /\ content = ""
    /\ reasoning = ""
    /\ refusal = ""
    /\ callm = <<>>
    /\ log = <<>>
    /\ resp = Nil
    /\ err = "nil"

ReqIdle ==
    opts = Nil /\ req = Nil /\ messages = <<>> /\ applied = <<>> /\ invocation = 1

CodecIdle == msg = Nil /\ wire = Nil /\ target = "" /\ decoded = Nil

\* no backend call issued yet, no second invocation
SideIdle == issued = 0 /\ failure = Nil /\ parked = Nil

Init ==
    /\ CallInit({"openai", "anthropic"}, {"stream", "block"})
    /\ ReqIdle /\ CodecIdle /\ SideIdle

Next ==
    \/ Open
    \/ OpenAIRecv
    \/ AnthropicNext
    \/ OnReasoning
    \/ OnContent
    \/ OnRefusal
    \/ ToolCallStart
    \/ ToolCallArgs
    \/ ToolCallArgsNotFound
    \/ Stop
    \/ Cancel
    \/ ChatCompletion

Spec == Init /\ [][Next]_vars

(***************************************************************************)
(* Claims about the streaming and blocking calls                           *)
(***************************************************************************)
DeltaCallbacks == {"OnContent", "OnReasoning", "OnRefusal", "OnToolCall"}

Streamed == mode = "stream" /\ pc = "done"

\* C1: when a delta callback (OnContent, OnReasoning, OnRefusal, OnToolCall)
\* returns an error, the call has returned exactly that error with a nil
\* Response, and the failed callback is the last one invoked: no callback, and
\* so no OnStop, follows it.
C1_ObserverAbort ==
    \A k \in DOMAIN log :
        (log[k].cb \in DeltaCallbacks /\ log[k].ret # "nil")
            => /\ k = Len(log)
               /\ pc = "done"
               /\ err = log[k].ret
               /\ resp = Nil
               /\ \A j \in DOMAIN log : log[j].cb # "OnStop"

\* a stream whose second delta callback is an OnContent that fails
C1_Witness ==
    /\ Streamed
    /\ Len(log) >= 2
    /\ log[Len(log)].cb = "OnContent"
    /\ log[Len(log)].ret \in WatcherErrs
    /\ log[1].ret = "nil"

Stops == {k \in DOMAIN log : log[k].cb = "OnStop"}

AbortedByDelta ==
    log # <<>> /\ log[Len(log)].cb \in DeltaCallbacks /\ log[Len(log)].ret # "nil"

\* C2: OnStop is invoked at most once and after every delta callback; a call
\* whose stream reached end-of-stream (it ended neither before the stream was
\* open, nor by a transport error, a cancellation or a failed delta callback)
\* invoked it exactly once, and a call that ended in one of those ways never
\* invoked it.
C2_OnStopOnce ==
    /\ Cardinality(Stops) <= 1
    /\ \A k \in Stops : k = Len(log) /\ todo = <<>>
    /\ (Streamed /\ hasWatcher)
          => IF err \in {ErrRequest, ErrTransport, ErrCanceled} \/ AbortedByDelta
             THEN Stops = {}
             ELSE Cardinality(Stops) = 1

\* a stream that delivered deltas, reached end-of-stream and returned a Response
C2_Witness ==
    /\ Streamed /\ resp # Nil
    /\ Len(log) >= 3
    /\ log[Len(log)].cb = "OnStop"

(***************************************************************************)
(* What a frame carries, read off the frame alone: the deltas of the       *)
(* protocol, each with its kind, its slot and its text.                    *)
(***************************************************************************)
Carried(kind, slot, chunk, index) ==
    [kind |-> kind, slot |-> slot, chunk |-> chunk, index |-> index]

WireDeltas(b, f) ==
    IF b = "anthropic"
    THEN CASE f.type = "content_block_start" /\ f.kind = "tool_use" ->
                 {Carried("start", 1, "", <<f.index>>)}
           [] f.type = "content_block_delta" /\ f.kind = "text_delta" ->
                 {Carried("content", 0, f.text, Nil)}
           [] f.type = "content_block_delta" /\ f.kind = "thinking_delta" ->
                 {Carried("reasoning", 0, f.text, Nil)}
           [] f.type = "content_block_delta" /\ f.kind = "input_json_delta" ->
                 {Carried("args", 1, f.text, <<f.index>>)}
           [] OTHER -> {}
    ELSE IF f.choices = 0 THEN {}
    ELSE (IF f.reasoning # "" THEN {Carried("reasoning", 0, f.reasoning, Nil)} ELSE {})
         \cup (IF f.content # "" THEN {Carried("content", 0, f.content, Nil)} ELSE {})
         \cup (IF f.refusal # "" THEN {Carried("refusal", 0, f.refusal, Nil)} ELSE {})
         \cup {Carried("start", t, "", f.tcs[t].index) :
                  t \in {n \in DOMAIN f.tcs : f.tcs[n].type = ToolTypeFunction
                                              /\ f.tcs[n].name # ""}}
         \cup {Carried("args", t, f.tcs[t].args, f.tcs[t].index) :
                  t \in {n \in DOMAIN f.tcs : f.tcs[n].args # ""}}

\* a call was declared at the delta's index by the time the delta is reached
Declared(k, d) ==
    \E k2 \in 1..k : \E d2 \in WireDeltas(backend, emitted[k2]) :
        /\ d2.kind = "start" /\ d2.index # Nil /\ d2.index = d.index
        /\ (k2 < k \/ d2.slot <= d.slot)

\* tool-call deltas without an index and argument fragments for an index with
\* no declared call
Undeliverable(k, d) ==
    /\ d.kind \in {"start", "args"}
    /\ \/ d.index = Nil
       \/ d.kind = "args" /\ ~Declared(k, d)

\* the frames whose handling is over
Handled ==
    IF pc = "loop" /\ todo # <<>> THEN Len(emitted) - 1 ELSE Len(emitted)

DeltaLog == {k \in DOMAIN log : log[k].cb # "OnStop"}

DeliveredAs(k, d) ==
    \E j \in DeltaLog :
        /\ log[j].frame = k /\ log[j].kind = d.kind /\ log[j].slot = d.slot
        /\ log[j].chunk = d.chunk

InWireOrder ==
    /\ \A i, j \in DeltaLog :
          i < j => /\ log[i].frame <= log[j].frame
                   /\ (log[i].frame = log[j].frame /\ log[i].slot > 0 /\ log[j].slot > 0)
                         => log[i].slot <= log[j].slot
                   /\ <<log[i].frame, log[i].kind, log[i].slot>>
                         # <<log[j].frame, log[j].kind, log[j].slot>>
    /\ \A j \in DeltaLog :
          \E d \in WireDeltas(backend, emitted[log[j].frame]) :
              d.kind = log[j].kind /\ d.slot = log[j].slot /\ d.chunk = log[j].chunk

WatchedStream == mode = "stream" /\ hasWatcher /\ err = "nil"

\* C3 as stated: callbacks follow the order of the frames, no delta is
\* delivered twice, and every delta of every handled frame is delivered.
C3_EveryDeltaInOrder ==
    WatchedStream
        => /\ InWireOrder
           /\ \A k \in 1..Handled : \A d \in WireDeltas(backend, emitted[k]) :
                 DeliveredAs(k, d)

\* C3 amended: callbacks follow the order of the frames (and, inside a frame,
\* the order of its tool-call list), no delta is delivered twice, every
\* callback is for a delta its frame carries, and every delta of every handled
\* frame is delivered except tool-call deltas that carry no index and argument
\* fragments for an index at which no call has been declared.
C3_DeliverableDeltasInOrder ==
    WatchedStream
        => /\ InWireOrder
           /\ \A k \in 1..Handled : \A d \in WireDeltas(backend, emitted[k]) :
                 DeliveredAs(k, d) <=> ~Undeliverable(k, d)

\* two calls declared in descending index order, then one frame carrying a
\* fragment for each, all delivered
C3_Witness ==
    /\ WatchedStream /\ pc = "done" /\ resp # Nil
    /\ Len(log) >= 5
    /\ log[1].kind = "start" /\ log[1].tc.index = 1
    /\ \E j \in DeltaLog : log[j].kind = "start" /\ log[j].tc.index = 0 /\ j > 1
    /\ \E i, j \in DeltaLog :
          /\ log[i].kind = "args" /\ log[j].kind = "args"
          /\ log[i].frame = log[j].frame /\ log[i].slot < log[j].slot

\* C4: the cancellation signal is checked at each frame-receive boundary: when
\* the call stands at such a boundary with its context cancelled, its next step
\* takes no further frame and invokes no callback, but returns the context's
\* cancellation error and a nil Response.
C4_CancelStopsAtBoundary ==
    [][(ctxDone /\ AtBoundary)
          => (pc' = "done" /\ err' = ErrCanceled /\ resp' = Nil /\ log' = log)]_vars

Ascending(tcalls) ==
    \A k \in 1..(Len(tcalls) - 1) : tcalls[k].index < tcalls[k + 1].index

\* C5: the tool calls a successful streaming call returns, in the Response and
\* in its answer, are strictly ascending by index (hence without duplicates).
C5_ToolCallsAscending ==
    (Streamed /\ resp # Nil)
        => /\ Ascending(resp[1].tcalls)
           /\ Ascending(resp[1].answer.toolcalls)
           /\ Len(resp[1].tcalls) = Cardinality(DOMAIN callm)

\* two calls that started in descending index order are returned
C5_Witness ==
    /\ Streamed /\ resp # Nil /\ hasWatcher
    /\ Len(resp[1].tcalls) = 2
    /\ log[1].kind = "start" /\ log[1].tc.index = 1

\* C8: a returned call hands back a Response or an error, never both, never
\* neither.
C8_ResponseXorError ==
    pc = "done" => ((resp # Nil) /\ err = "nil") \/ (resp = Nil /\ err # "nil")

\* OnStop itself fails after deltas were delivered
C8_Witness ==
    /\ Streamed /\ resp = Nil
    /\ Len(log) >= 2
    /\ log[Len(log)].cb = "OnStop" /\ log[Len(log)].ret \in WatcherErrs

ZeroSegments(chatResp) ==
    IF backend = "anthropic" THEN chatResp.Content = <<>> ELSE chatResp.Choices = <<>>

\* C9: a blocking call whose backend response has zero output segments returns
\* ErrEmptyChoices and a nil Response.
C9_EmptyResponse ==
    (mode = "block" /\ pc = "done" /\ emitted # <<>> /\ ZeroSegments(emitted[1]))
        => err = ErrEmptyChoices /\ resp = Nil

C9_Witness ==
    /\ mode = "block" /\ pc = "done" /\ backend = "openai"
    /\ emitted # <<>> /\ ZeroSegments(emitted[1])

(***************************************************************************)
(* The earlier revision of the OpenAI streaming call (openai.go 121-264)   *)
(***************************************************************************)
InitRev1 == CallInit({"openai_r1"}, {"stream"}) /\ ReqIdle /\ CodecIdle /\ SideIdle

NextRev1 ==
    \/ Open
    \/ OpenAIRecv
    \/ OnContent
    \/ ToolCallStart
    \/ ToolCallArgs
    \/ ToolCallArgsNotFound
    \/ Stop
    \/ Cancel

SpecRev1 == InitRev1 /\ [][NextRev1]_vars

(***************************************************************************)
(* The tool-call deltas of the handled frames, in wire order, and what     *)
(* they say the call at index i is: declared or not, and the fragments     *)
(* that arrived for it since its latest declaration.                       *)
(***************************************************************************)
WireCalls(b, f) ==
    IF b = "anthropic"
    THEN IF f.type = "content_block_start" /\ f.kind = "tool_use"
         THEN <<[index |-> <<f.index>>, start |-> TRUE, frag |-> "",
                 id |-> f.id, name |-> f.name]>>
         ELSE IF f.type = "content_block_delta" /\ f.kind = "input_json_delta"
         THEN <<[index |-> <<f.index>>, start |-> FALSE, frag |-> f.text,
                 id |-> "", name |-> ""]>>
         ELSE <<>>
    ELSE IF f.choices = 0 THEN <<>>
    ELSE [t \in DOMAIN f.tcs |->
            [index |-> f.tcs[t].index,
             start |-> f.tcs[t].type = ToolTypeFunction /\ f.tcs[t].name # "",
             frag  |-> f.tcs[t].args,
             id    |-> f.tcs[t].id,
             name  |-> f.tcs[t].name]]

HandledCalls == Concat([k \in 1..Handled |-> WireCalls(backend, emitted[k])])

RECURSIVE Received(_, _, _)
Received(calls, i, acc) ==
    IF calls = <<>> THEN acc
    ELSE LET c == Head(calls)
             opened == IF c.index = <<i>> /\ c.start
                       THEN [declared |-> TRUE, frags |-> ""] ELSE acc
         IN  Received(Tail(calls), i,
                      IF c.index = <<i>> /\ opened.declared
                      THEN [opened EXCEPT !.frags = @ \o c.frag] ELSE opened)

Indices == {0, 1}

\* C6: whenever a streaming call stands between two frames (or has ended
\* without an error), a call is held at index i exactly when one was declared
\* there, and its Arguments() is the concatenation, in arrival order, of the
\* fragments received for index i since its latest declaration.
C6_ArgumentsConcat ==
    (mode = "stream" /\ todo = <<>> /\ err = "nil")
        => \A i \in Indices :
              LET want == Received(HandledCalls, i, [declared |-> FALSE, frags |-> ""])
              IN  /\ (i \in DOMAIN callm) = want.declared
                  /\ want.declared => Arguments(callm[i].fcall) = want.frags

\* the call at index 0 has received "a" and then "b"
C6_Witness ==
    /\ mode = "stream" /\ todo = <<>> /\ err = "nil"
    /\ 0 \in DOMAIN callm
    /\ Arguments(callm[0].fcall) = "ab"

\* the role a frame carries: "" when it carries none
FrameRole(f) ==
    IF backend = "anthropic"
    THEN IF f.type = "message_start" THEN f.role ELSE ""
    ELSE IF f.choices > 0 THEN f.role ELSE ""

RECURSIVE FirstRole(_)
FirstRole(frames) ==
    IF frames = <<>> THEN ""
    ELSE IF FrameRole(Head(frames)) # "" THEN FrameRole(Head(frames))
    ELSE FirstRole(Tail(frames))

\* C14: at every point of a streaming call the captured role is the role of
\* the first frame that carried a non-empty one, whatever roles later frames
\* carry, and the returned message's Role() is that role.
C14_RoleCapturedOnce ==
    mode = "stream"
        => /\ role = FirstRole(emitted)
           /\ (pc = "done" /\ resp # Nil) => resp[1].answer.role = FirstRole(emitted)

\* a stream whose frames carry two different roles: the first one is returned
C14_Witness ==
    /\ Streamed /\ resp # Nil
    /\ \E i, j \in DOMAIN emitted :
          /\ i < j
          /\ FrameRole(emitted[i]) = RoleAssistant
          /\ FrameRole(emitted[j]) = RoleUser
    /\ resp[1].answer.role = RoleAssistant

\* the positions in calls of the declarations of a call at index i
Declarations(calls, i) ==
    {k \in DOMAIN calls : calls[k].index = <<i>> /\ calls[k].start}

\* what the handled deltas say the call tc is: the id and name of the latest
\* declaration at its index, and the fragments received since
LatestDeclared(tc) ==
    LET decls == Declarations(HandledCalls, tc.index)
        decl == HandledCalls[CHOOSE k \in decls : \A j \in decls : j <= k]
        want == Received(HandledCalls, tc.index, [declared |-> FALSE, frags |-> ""])
    IN  /\ tc.id = decl.id
        /\ tc.fcall.name = decl.name
        /\ Arguments(tc.fcall) = want.frags

\* C16: between two frames, and in the Response of a stream that ended well,
\* the call at an index has the id and name of the latest declaration made at
\* that index, and its arguments are the fragments received for the index
\* after that declaration: nothing of an earlier partial call is left.
C16_LaterDeclarationReplaces ==
    (mode = "stream" /\ todo = <<>> /\ err = "nil")
        => /\ \A i \in DOMAIN callm :
                 /\ Declarations(HandledCalls, i) # {}
                 /\ callm[i].index = i
                 /\ LatestDeclared(callm[i])
           /\ (pc = "done" /\ resp # Nil)
                 => \A k \in DOMAIN resp[1].tcalls : LatestDeclared(resp[1].tcalls[k])

\* index 0 was declared, received a fragment, and was declared again with
\* another id: the Response holds the later call, with no arguments
C16_Witness ==
    /\ Streamed /\ resp # Nil
    /\ \E p, q, r \in DOMAIN HandledCalls :
          /\ p < q /\ q < r
          /\ HandledCalls[p].index = <<0>> /\ HandledCalls[p].start
          /\ HandledCalls[q].index = <<0>> /\ ~HandledCalls[q].start
          /\ HandledCalls[q].frag # ""
          /\ HandledCalls[r].index = <<0>> /\ HandledCalls[r].start
          /\ HandledCalls[r].id # HandledCalls[p].id
          /\ Len(resp[1].tcalls) = 1
          /\ resp[1].tcalls[1].id = HandledCalls[r].id
          /\ Arguments(resp[1].tcalls[1].fcall) = ""

\* a funcall's two argument stores are not both in use
Exclusive(fcall) == ~(fcall.args # "" /\ fcall.buff # "")

\* C17: in every state of a streaming call, no funcall (of a call held in
\* callm, handed to OnToolCall, or returned in the Response) has both a
\* non-empty args and a non-empty buff.
C17_ArgsBuffExclusive ==
    mode = "stream"
        => /\ \A i \in DOMAIN callm : Exclusive(callm[i].fcall)
           /\ \A k \in DOMAIN log :
                 log[k].cb = "OnToolCall" => Exclusive(log[k].tc.fcall)
           /\ resp # Nil
                 => \A k \in DOMAIN resp[1].tcalls : Exclusive(resp[1].tcalls[k].fcall)

\* C18: OnToolCall is handed the empty fragment exactly when it is invoked for
\* a tool-call start delta: an invocation made for an argument delta carries
\* a non-empty fragment.
C18_EmptyFragmentOnlyForStarts ==
    \A k \in DOMAIN log :
        log[k].cb = "OnToolCall" => (log[k].chunk = "" <=> log[k].kind = "start")

\* the delta at hand is an argument fragment for an index callm has no call at
UndeclaredFragment ==
    /\ mode = "stream" /\ pc = "loop" /\ todo # <<>>
    /\ Head(todo).kind = "args"
    /\ Head(todo).index \notin DOMAIN callm

\* C15: an argument fragment for an index at which no call was declared is
\* dropped: the step that handles it invokes no callback, leaves callm (its
\* entries and their arguments) as it was, and neither ends the call nor
\* raises an error.
C15_UndeclaredFragmentDropped ==
    [][UndeclaredFragment
          => /\ log' = log
             /\ callm' = callm
             /\ pc' = pc /\ err' = err /\ resp' = resp
             /\ (todo' = Tail(todo) \/ ctxDone' # ctxDone)]_vars

\* a watched stream that carried a non-empty fragment and declared no call:
\* it ends well, with no OnToolCall and no tool call in the answer
C15_Witness ==
    /\ Streamed /\ resp # Nil /\ err = "nil" /\ hasWatcher
    /\ DOMAIN callm = {}
    /\ \E i \in DOMAIN emitted :
          \E k \in DOMAIN Steps(backend, emitted[i]) :
             /\ Steps(backend, emitted[i])[k].kind = "args"
             /\ Steps(backend, emitted[i])[k].chunk # ""
    /\ \A k \in DOMAIN log : log[k].cb # "OnToolCall"
    /\ resp[1].answer.toolcalls = <<>>

\* the call variables of a specification that makes no chat call
CallIdle(backends) ==
    /\ backend \in backends
    /\ mode = "off"
    /\ hasWatcher = FALSE
    /\ todo = <<>> /\ emitted = <<>> /\ ctxDone = FALSE
    /\ role = "" /\ content = "" /\ reasoning = "" /\ refusal = ""
    /\ callm = <<>> /\ log = <<>> /\ resp = Nil /\ err = "nil"

(***************************************************************************)
(* Messages and the persisted form.  The unified llmmsg (message.go) has   *)
(* its own JSON form; the backend-specific message types of the earlier    *)
(* revisions (llmmsg{rawmsg}, anthropicMsg, anthropicToolResultMsg,        *)
(* baseMessage) are persisted as a WireMessage and decoded for a selector. *)
(* A field tagged omitempty is written only when non-zero and reads back   *)
(* as the zero value, so the zero value stands for the absent field.       *)
(***************************************************************************)
ImageURLDetailAuto == "auto"
ImageURLDetailHigh == "high"
ImageURLDetailLow  == "low"

ImageURL(url, detail) == [URL |-> url, Detail |-> detail]

ImagePart(img) == [Type |-> ContentPartTypeImageURL, Text |-> "", ImageURL |-> <<img>>]

\* an image option that keeps any detail string
WithImageURLDetailKept(url, detail) == ImageURL(url, detail)

\* message.go 33-45
WithImageURLDetail(url, detail) ==
    ImageURL(url, IF detail \in {ImageURLDetailHigh, ImageURLDetailLow, ImageURLDetailAuto}
                  THEN detail ELSE ImageURLDetailAuto)

\* message.go 28-30
WithImageURL(url) == WithImageURLDetail(url, ImageURLDetailAuto)

\* message.go 62-91
NewUserMessage(text, imageURLs) ==
    message(RoleUser,
            IF Len(imageURLs) = 0 THEN <<TextPart(text)>>
            ELSE [k \in DOMAIN imageURLs |-> ImagePart(imageURLs[k])]
                 \o (IF text # "" THEN <<TextPart(text)>> ELSE <<>>),
            "", "", <<>>, "")

\* message.go 93-102
NewToolMessage(tool, result) ==
    message(RoleTool, <<TextPart(result)>>, "", "", <<>>, tool.id)

\* message.go 104-112
NewSystemMessage(text) ==
    message(RoleSystem, <<TextPart(text)>>, "", "", <<>>, "")

\* message.go 114-138
NewAssistantMessage(text, toolCalls) ==
    message(RoleAssistant,
            IF text # "" THEN <<TextPart(text)>> ELSE <<>>,
            "", "",
            [k \in DOMAIN toolCalls |->
                toolcall(toolCalls[k].index, toolCalls[k].id, toolCalls[k].type_,
                         funcall(toolCalls[k].fcall.name, Arguments(toolCalls[k].fcall)))],
            "")

\* openai.go 347-370
OpenAINewUserMessage(text, imageURLs) ==
    IF Len(imageURLs) <= 0
    THEN rawmsg(RoleUser, text, <<>>, <<>>, "")
    ELSE rawmsg(RoleUser, "",
                [k \in DOMAIN imageURLs |-> ImagePart(imageURLs[k])] \o <<TextPart(text)>>,
                <<>>, "")

\* openai.go 372-381
OpenAINewToolMessage(tool, result) == rawmsg(RoleTool, result, <<>>, <<>>, tool.id)

\* part_001 342-352
AnthropicNewUserMessage(text, imageURLs) ==
    [type |-> "anthropicMsg", role |-> RoleUser, content |-> text,
     tcalls |-> <<>>, images |-> imageURLs]

\* part_001 355-360
AnthropicNewToolMessage(tool, result) ==
    [type |-> "anthropicToolResultMsg", toolUseID |-> tool.id, content |-> result]

RECURSIVE TextOfAllParts(_)
\* TextOf writing the URL of an image part as well
TextOfAllParts(parts) ==
    IF parts = <<>> THEN ""
    ELSE (IF Head(parts).Type = ContentPartTypeText THEN Head(parts).Text
          ELSE Head(parts).ImageURL[1].URL)
         \o TextOfAllParts(Tail(parts))

RECURSIVE TextOf(_)
\* message.go 164-172: the text parts, concatenated in order
TextOf(parts) ==
    IF parts = <<>> THEN ""
    ELSE (IF Head(parts).Type = ContentPartTypeText THEN Head(parts).Text ELSE "")
         \o TextOf(Tail(parts))

RECURSIVE FirstText(_)
\* openai.go 399-404: the first text part
FirstText(parts) ==
    IF parts = <<>> THEN ""
    ELSE IF Head(parts).Type = ContentPartTypeText THEN Head(parts).Text
    ELSE FirstText(Tail(parts))

\* Message.Role() of each message type
Role(m) ==
    CASE m.type = "llmmsg"                 -> m.role
      [] m.type = "rawmsg"                 -> m.Role
      [] m.type = "anthropicToolResultMsg" -> RoleUser
      [] OTHER                             -> m.role

\* Message.Content() of each message type
Content(m) ==
    CASE m.type = "llmmsg" -> TextOf(m.content)
      [] m.type = "rawmsg" -> IF m.Content # "" THEN m.Content ELSE FirstText(m.MultiContent)
      [] OTHER             -> m.content

\* Message.Reasoning(); the earlier message types hold no reasoning
Reasoning(m) == IF m.type = "llmmsg" THEN m.reasoning ELSE ""

\* tool.go 70-84 and 138-148: the JSON form of a toolcall
MarshalToolCall(tc) ==
    [index |-> tc.index, id |-> tc.id, type |-> tc.type_,
     function |-> [name |-> tc.fcall.name, arguments |-> Arguments(tc.fcall)]]

\* tool.go 86-105 and 150-163
UnmarshalToolCall(j) ==
    toolcall(j.index, j.id, j.type, funcall(j.function.name, j.function.arguments))

\* message.go 180-201
MarshalJSON(m) ==
    [format |-> "llmmsg", role |-> m.role, content |-> m.content,
     tool_calls |-> [k \in DOMAIN m.toolcalls |-> MarshalToolCall(m.toolcalls[k])],
     tool_call_id |-> m.toolCallID, reasoning |-> m.reasoning, refusal |-> m.refusal]

\* message.go 203-225
UnmarshalJSON(j) ==
    message(j.role, j.content, j.reasoning, j.refusal,
            [k \in DOMAIN j.tool_calls |-> UnmarshalToolCall(j.tool_calls[k])],
            j.tool_call_id)

\* part_004 66-72
WireMessage(r, con, tcid, tcs, images) ==
    [format |-> "WireMessage", Role |-> r, Content |-> con, ToolCallID |-> tcid,
     ToolCalls |-> tcs, Images |-> images]

\* part_004 75-81
WireToolCall(index, id, type, name, args) ==
    [Index |-> index, ID |-> id, Type |-> type, Name |-> name, Args |-> args]

\* part_004 103-107: the image parts that carry an image
WireImages(parts) ==
    SelectSeq([k \in DOMAIN parts |->
                  IF parts[k].Type = ContentPartTypeImageURL /\ parts[k].ImageURL # Nil
                  THEN parts[k].ImageURL ELSE Nil],
              LAMBDA img : img # Nil)

\* part_004 108-116 dereferences tc.Index of every tool call
DerefNil(m) ==
    /\ m.type = "rawmsg"
    /\ \E k \in DOMAIN m.ToolCalls : m.ToolCalls[k].Index = Nil

\* part_004 94-133 for the earlier message types, message.go 227-233 for llmmsg
EncodeMessage(m) ==
    CASE m.type = "llmmsg" -> MarshalJSON(m)
      [] m.type = "rawmsg" ->
            LET tool == m.ToolCallID # "" /\ m.Role = RoleTool
            IN  WireMessage(IF tool THEN RoleTool ELSE Role(m), Content(m),
                            IF tool THEN m.ToolCallID ELSE "",
                            [k \in DOMAIN m.ToolCalls |->
                                WireToolCall(m.ToolCalls[k].Index[1], m.ToolCalls[k].ID,
                                             m.ToolCalls[k].Type,
                                             m.ToolCalls[k].Function.Name,
                                             m.ToolCalls[k].Function.Arguments)],
                            [k \in DOMAIN WireImages(m.MultiContent) |->
                                WireImages(m.MultiContent)[k][1]])
      [] m.type = "anthropicMsg" ->
            WireMessage(Role(m), Content(m), "",
                        [k \in DOMAIN m.tcalls |->
                            WireToolCall(m.tcalls[k].index, m.tcalls[k].id, m.tcalls[k].type_,
                                         m.tcalls[k].fcall.name, Arguments(m.tcalls[k].fcall))],
                        <<>>)
      [] m.type = "anthropicToolResultMsg" ->
            WireMessage(RoleTool, Content(m), m.toolUseID, <<>>, <<>>)
      [] OTHER -> WireMessage(Role(m), Content(m), "", <<>>, <<>>)

\* part_005 61-96: the earliest EncodeMessage keeps the role of an Anthropic
\* tool result as Role() reports it; the rest is as in part_004
EncodeMessageEarliest(m) ==
    IF m.type = "anthropicToolResultMsg"
    THEN WireMessage(Role(m), Content(m), m.toolUseID, <<>>, <<>>)
    ELSE EncodeMessage(m)

\* the encoders a message type has had
Encoders(m) ==
    IF m.type = "llmmsg" THEN {EncodeMessage(m)}
    ELSE {EncodeMessage(m), EncodeMessageEarliest(m)}

\* baseMessage without its text
baseMessageNoText(r, con) == [type |-> "baseMessage", role |-> r, content |-> ""]

\* part_004 83-89
baseMessage(r, con) == [type |-> "baseMessage", role |-> r, content |-> con]

\* the model argument of DecodeMessage: *llm, *anthropicLLM, or any other Model
Selectors == {"openai", "anthropic", "other"}

Supported == {"openai", "anthropic"}

\* part_004 138-217
DecodeWire(model, wm) ==
    IF wm.Role = RoleTool /\ wm.ToolCallID # ""
    THEN CASE model = "openai"    -> rawmsg(RoleTool, wm.Content, <<>>, <<>>, wm.ToolCallID)
           [] model = "anthropic" ->
                 [type |-> "anthropicToolResultMsg", toolUseID |-> wm.ToolCallID,
                  content |-> wm.Content]
           [] OTHER               -> baseMessage(wm.Role, wm.Content)
    ELSE CASE model = "openai" ->
                 rawmsg(wm.Role,
                        IF Len(wm.Images) > 0 THEN "" ELSE wm.Content,
                        IF Len(wm.Images) > 0
                        THEN [k \in DOMAIN wm.Images |-> ImagePart(wm.Images[k])]
                             \o <<TextPart(wm.Content)>>
                        ELSE <<>>,
                        [k \in DOMAIN wm.ToolCalls |->
                            OpenAIToolCall(<<wm.ToolCalls[k].Index>>, wm.ToolCalls[k].ID,
                                           wm.ToolCalls[k].Type, wm.ToolCalls[k].Name,
                                           wm.ToolCalls[k].Args)],
                        "")
           [] model = "anthropic" ->
                 [type |-> "anthropicMsg", role |-> wm.Role, content |-> wm.Content,
                  tcalls |-> [k \in DOMAIN wm.ToolCalls |->
                                 toolcall(wm.ToolCalls[k].Index, wm.ToolCalls[k].ID,
                                          wm.ToolCalls[k].Type,
                                          funcall(wm.ToolCalls[k].Name, wm.ToolCalls[k].Args))],
                  images |-> <<>>]
           [] OTHER -> baseMessage(wm.Role, wm.Content)

\* part_004 138 with a selector, message.go 236-242 without one
DecodeMessage(model, data) ==
    IF data.format = "llmmsg" THEN UnmarshalJSON(data) ELSE DecodeWire(model, data)

(***************************************************************************)
(* Persisting a message and restoring it for a backend                     *)
(***************************************************************************)
Texts == {"", "hi"}

ImageLists ==
    {<<>>, <<WithImageURL("u1")>>, <<WithImageURLDetail("u1", "huge"), WithImageURL("u2")>>}

\* a call received whole, a call assembled from streamed fragments, a call without id
CallWhole    == toolcall(0, "call_0", ToolTypeFunction, funcall("f", "{}"))
CallStreamed == toolcall(1, "call_1", ToolTypeFunction, writeArgs(funcall("g", ""), "{}"))
CallNoID     == toolcall(0, "", ToolTypeFunction, funcall("f", "{}"))

ToolCallLists == {<<>>, <<CallWhole>>, <<CallWhole, CallStreamed>>}

\* tool calls of a backend answer, with and without the backend-supplied index
RawCallLists ==
    {<<>>,
     <<OpenAIToolCall(<<0>>, "call_0", ToolTypeFunction, "f", "{}")>>,
     <<OpenAIToolCall(Nil, "call_0", ToolTypeFunction, "f", "{}")>>}

\* what the factories of message.go build
FactoryMessages ==
       {NewUserMessage(t, imgs) : t \in Texts, imgs \in ImageLists}
  \cup {NewSystemMessage(t) : t \in Texts}
  \cup {NewToolMessage(tc, t) : tc \in {CallWhole, CallNoID}, t \in Texts}
  \cup {NewAssistantMessage(t, tcs) : t \in Texts, tcs \in ToolCallLists}

\* what the factories of the earlier OpenAI adapter build
OpenAIFactoryMessages ==
       {OpenAINewUserMessage(t, imgs) : t \in Texts, imgs \in ImageLists}
  \cup {OpenAINewToolMessage(tc, t) : tc \in {CallWhole, CallNoID}, t \in Texts}

Messages ==
       FactoryMessages
  \cup OpenAIFactoryMessages
  \cup {message(RoleAssistant, <<TextPart(t)>>, rea, "",
                [k \in DOMAIN tcs |-> Snapshot(tcs[k])], "") :
            t \in Texts, rea \in {"", "think"}, tcs \in ToolCallLists}
  \cup {rawmsg(RoleAssistant, t, <<>>, tcs, "") : t \in Texts, tcs \in RawCallLists}
  \cup {AnthropicNewUserMessage(t, imgs) : t \in Texts, imgs \in ImageLists}
  \cup {AnthropicNewToolMessage(tc, t) : tc \in {CallWhole, CallNoID}, t \in Texts}
  \cup {[type |-> "anthropicMsg", role |-> RoleAssistant, content |-> t,
         tcalls |-> tcs, images |-> <<>>] : t \in Texts, tcs \in ToolCallLists}

InitCodec ==
    /\ CallIdle({"none"})
    /\ pc = "message"
    /\ ReqIdle
    /\ msg \in {<<m>> : m \in Messages}
    /\ wire = Nil
    /\ target = ""
    /\ decoded = Nil
    /\ SideIdle

\* data, err := EncodeMessage(msg)
Encode ==
    /\ pc = "message"
    /\ ~DerefNil(msg[1])
    /\ \E data \in Encoders(msg[1]) : wire' = <<data>>
    /\ pc' = "encoded"
    /\ UNCHANGED <<backend, mode, hasWatcher, todo, emitted, ctxDone, role, content,
                   reasoning, refusal, callm, log, resp, err>>
    /\ UNCHANGED <<reqVars, msg, target, decoded, sideVars>>

\* EncodeMessage(msg) dereferences a nil index: the call does not return
EncodePanics ==
    /\ pc = "message"
    /\ DerefNil(msg[1])
    /\ pc' = "panic"
    /\ UNCHANGED <<backend, mode, hasWatcher, todo, emitted, ctxDone, role, content,
                   reasoning, refusal, callm, log, resp, err>>
    /\ UNCHANGED <<reqVars, codecVars, sideVars>>

\* msg, err := DecodeMessage(model, data)
Decode ==
    /\ pc = "encoded"
    /\ \E model \in Selectors :
          /\ target' = model
          /\ decoded' = <<DecodeMessage(model, wire[1])>>
    /\ pc' = "decoded"
    /\ UNCHANGED <<backend, mode, hasWatcher, todo, emitted, ctxDone, role, content,
                   reasoning, refusal, callm, log, resp, err>>
    /\ UNCHANGED <<reqVars, msg, wire, sideVars>>

\* the restored message becomes the message to persist next
Restore ==
    /\ pc = "decoded"
    /\ msg' = decoded
    /\ wire' = Nil /\ target' = "" /\ decoded' = Nil
    /\ pc' = "message"
    /\ UNCHANGED <<backend, mode, hasWatcher, todo, emitted, ctxDone, role, content,
                   reasoning, refusal, callm, log, resp, err>>
    /\ UNCHANGED <<reqVars, sideVars>>

NextCodec == Encode \/ EncodePanics \/ Decode \/ Restore

SpecCodec == InitCodec /\ [][NextCodec]_vars

\* the ordered (id, name, arguments) tuples of a message's tool calls
ToolCallTuples(m) ==
    CASE m.type = "llmmsg" ->
            [k \in DOMAIN m.toolcalls |->
                <<m.toolcalls[k].id, m.toolcalls[k].fcall.name, Arguments(m.toolcalls[k].fcall)>>]
      [] m.type = "rawmsg" ->
            [k \in DOMAIN m.ToolCalls |->
                <<m.ToolCalls[k].ID, m.ToolCalls[k].Function.Name,
                  m.ToolCalls[k].Function.Arguments>>]
      [] m.type = "anthropicMsg" ->
            [k \in DOMAIN m.tcalls |->
                <<m.tcalls[k].id, m.tcalls[k].fcall.name, Arguments(m.tcalls[k].fcall)>>]
      [] OTHER -> <<>>

\* C7: a message encoded and decoded for a supported backend selector has the
\* same Role(), Content(), Reasoning() and ordered (id, name, arguments)
\* tool-call tuples as the original.
C7_RoundTrip ==
    (pc = "decoded" /\ target \in Supported)
        => /\ Role(decoded[1]) = Role(msg[1])
           /\ Content(decoded[1]) = Content(msg[1])
           /\ Reasoning(decoded[1]) = Reasoning(msg[1])
           /\ ToolCallTuples(decoded[1]) = ToolCallTuples(msg[1])

\* the content parts of a message: for the earlier llmmsg the Content string
\* is its text part when set, followed by MultiContent
ContentParts(m) ==
    IF m.type = "llmmsg" THEN m.content
    ELSE (IF m.Content # "" THEN <<TextPart(m.Content)>> ELSE <<>>) \o m.MultiContent

TextParts(m) == SelectSeq(ContentParts(m), LAMBDA part : part.Type = ContentPartTypeText)

RECURSIVE JoinText(_)
JoinText(parts) == IF parts = <<>> THEN "" ELSE Head(parts).Text \o JoinText(Tail(parts))

\* C12: for every message built by a factory, Content() is the concatenation,
\* in order, of the Text of its text-typed content parts; image parts add
\* nothing, and a message without a text part has Content() "".
C12_ContentIsTextParts ==
    (msg # Nil /\ msg[1] \in FactoryMessages \cup OpenAIFactoryMessages)
        => /\ Content(msg[1]) = JoinText(TextParts(msg[1]))
           /\ TextParts(msg[1]) = <<>> => Content(msg[1]) = ""

\* a user message with two images and a text, persisted: its Content() is the text
C12_Witness ==
    /\ pc = "encoded"
    /\ msg[1] = NewUserMessage("hi", <<WithImageURLDetail("u1", "huge"), WithImageURL("u2")>>)
    /\ Len(ContentParts(msg[1])) = 3
    /\ Content(msg[1]) = "hi"

\* the role and the text a payload holds
PersistedRole(data) == IF data.format = "llmmsg" THEN data.role ELSE data.Role

PersistedText(data) == IF data.format = "llmmsg" THEN TextOf(data.content) ELSE data.Content

\* C13: decoding a payload for a selector that is neither supported backend
\* returns, with a nil error, a message whose Role() and Content() are the
\* persisted role and text (for the WireMessage payloads the minimal
\* baseMessage), for tool-role payloads and for all other roles.
C13_FallbackForOtherSelector ==
    (pc = "decoded" /\ target \notin Supported)
        => /\ err = "nil"
           /\ Role(decoded[1]) = PersistedRole(wire[1])
           /\ Content(decoded[1]) = PersistedText(wire[1])
           /\ wire[1].format = "WireMessage" => decoded[1].type = "baseMessage"

\* a tool-role payload with a tool-call id and a text, decoded for another selector
C13_Witness ==
    /\ pc = "decoded" /\ target = "other"
    /\ wire[1].format = "WireMessage"
    /\ wire[1].Role = RoleTool /\ wire[1].ToolCallID # "" /\ wire[1].Content # ""
    /\ decoded[1] = baseMessage(RoleTool, wire[1].Content)

\* the text (kind "content"), reasoning or refusal delta a frame carries
FrameDelta(f, kind) ==
    IF backend = "anthropic"
    THEN CASE kind = "content" /\ f.type = "content_block_delta" /\ f.kind = "text_delta"
                 -> f.text
           [] kind = "reasoning" /\ f.type = "content_block_delta"
                                /\ f.kind = "thinking_delta" -> f.text
           [] OTHER -> ""
    ELSE IF f.choices <= 0 THEN "" ELSE f[kind]

RECURSIVE FrameDeltas(_, _)
FrameDeltas(frames, kind) ==
    IF frames = <<>> THEN ""
    ELSE FrameDelta(Head(frames), kind) \o FrameDeltas(Tail(frames), kind)

RECURSIVE Forwarded(_, _)
\* the strings the callback cb was handed, in order
Forwarded(l, cb) ==
    IF l = <<>> THEN ""
    ELSE (IF Head(l).cb = cb THEN Head(l).chunk ELSE "") \o Forwarded(Tail(l), cb)

\* the refusal an answer holds; the earlier message type has none
Refusal(m) == IF m.type = "llmmsg" THEN m.refusal ELSE ""

\* C19: when a streaming call ends well, the answer's Content(), Reasoning()
\* and refusal are the in-order concatenations of the text, reasoning and
\* refusal deltas of the frames, tool-call deltas in the same frames or not,
\* and with a watcher they are also the concatenations of the strings handed
\* to OnContent, OnReasoning and OnRefusal.
C19_TextDeltasAllKept ==
    (Streamed /\ resp # Nil)
        => /\ Content(resp[1].answer) = FrameDeltas(emitted, "content")
           /\ Reasoning(resp[1].answer) = FrameDeltas(emitted, "reasoning")
           /\ Refusal(resp[1].answer) = FrameDeltas(emitted, "refusal")
           /\ hasWatcher
                 => /\ Forwarded(log, "OnContent") = FrameDeltas(emitted, "content")
                    /\ Forwarded(log, "OnReasoning") = FrameDeltas(emitted, "reasoning")
                    /\ Forwarded(log, "OnRefusal") = FrameDeltas(emitted, "refusal")

\* the tool calls a message holds, in the order MarshalJSON writes them
\* (message.go 183-201)
StoredToolCalls(m) == IF m.type = "llmmsg" THEN m.toolcalls ELSE <<>>

\* C20: the message of every Response, every message built by a factory and
\* every decoded message holds its tool calls with pairwise distinct indices,
\* in ascending index order.
C20_ToolCallIndicesAscending ==
    /\ resp # Nil => Ascending(StoredToolCalls(resp[1].answer))
    /\ msg # Nil => Ascending(StoredToolCalls(msg[1]))
    /\ decoded # Nil => Ascending(StoredToolCalls(decoded[1]))

\* the originating tool-call identifier a message carries; a baseMessage has
\* no field for one
ToolCallIDOf(m) ==
    CASE m.type = "llmmsg"                 -> m.toolCallID
      [] m.type = "rawmsg"                 -> m.ToolCallID
      [] m.type = "anthropicToolResultMsg" -> m.toolUseID
      [] OTHER                             -> ""

\* C21: every message whose Role() is "tool", built by a factory or returned
\* by DecodeMessage, carries a non-empty originating tool-call identifier.
C21_ToolMessageHasCallID ==
    /\ msg # Nil => (Role(msg[1]) = RoleTool => ToolCallIDOf(msg[1]) # "")
    /\ decoded # Nil => (Role(decoded[1]) = RoleTool => ToolCallIDOf(decoded[1]) # "")

\* the tool calls a message holds, as (index, id, kind, name, arguments)
CallsOf(m) ==
    CASE m.type = "llmmsg" ->
            [k \in DOMAIN m.toolcalls |->
                <<m.toolcalls[k].index, m.toolcalls[k].id, m.toolcalls[k].type_,
                  m.toolcalls[k].fcall.name, Arguments(m.toolcalls[k].fcall)>>]
      [] m.type = "rawmsg" ->
            [k \in DOMAIN m.ToolCalls |->
                <<m.ToolCalls[k].Index[1], m.ToolCalls[k].ID, m.ToolCalls[k].Type,
                  m.ToolCalls[k].Function.Name, m.ToolCalls[k].Function.Arguments>>]
      [] m.type = "anthropicMsg" ->
            [k \in DOMAIN m.tcalls |->
                <<m.tcalls[k].index, m.tcalls[k].id, m.tcalls[k].type_,
                  m.tcalls[k].fcall.name, Arguments(m.tcalls[k].fcall)>>]
      [] OTHER -> <<>>

\* the image parts a message holds, as (url, detail)
ImagesOf(m) ==
    CASE m.type = "llmmsg" ->
            [k \in DOMAIN WireImages(m.content) |->
                <<WireImages(m.content)[k][1].URL, WireImages(m.content)[k][1].Detail>>]
      [] m.type = "rawmsg" ->
            [k \in DOMAIN WireImages(m.MultiContent) |->
                <<WireImages(m.MultiContent)[k][1].URL,
                  WireImages(m.MultiContent)[k][1].Detail>>]
      [] m.type = "anthropicMsg" ->
            [k \in DOMAIN m.images |-> <<m.images[k].URL, m.images[k].Detail>>]
      [] OTHER -> <<>>

\* what a payload is to capture of a message
Captured(m) ==
    [role |-> Role(m), text |-> Content(m), reasoning |-> Reasoning(m),
     toolCallID |-> ToolCallIDOf(m), calls |-> CallsOf(m), images |-> ImagesOf(m)]

\* C27: the payload of EncodeMessage(m) captures role, flattened text,
\* reasoning, tool-call-result identifier, the tool calls in order with
\* (index, id, kind, name, arguments) and every image part with url and
\* detail: a message that differs from m in one of these encodes to a
\* different payload.
C27_PayloadCapturesMessage ==
    (pc = "encoded" /\ wire[1] = EncodeMessage(msg[1]))
        => \A other \in Messages :
              (~DerefNil(other) /\ Captured(other) # Captured(msg[1]))
                  => EncodeMessage(other) # wire[1]

\* C28: an invocation issues at most one backend call; a ChatCompletion that
\* built its request and returned has issued exactly one blocking call, and a
\* ChatCompletionStream that went past request construction has opened
\* exactly one stream, whatever its outcome; an empty response or an error is
\* not followed by a second call.
C28_OneBackendCall ==
    /\ issued <= 1
    /\ pc = "done" => issued = 1
    /\ (mode = "stream" /\ pc # "start") => issued = 1
    /\ (mode = "block" /\ pc \in {"start", "call"}) => issued = 0

\* a blocking call answered with zero output segments
C28_Witness ==
    /\ mode = "block" /\ pc = "done"
    /\ err = ErrEmptyChoices /\ resp = Nil
    /\ issued = 1

\* C30: in the tool-call sequence of every Response, the k-th tool call has
\* index k (zero-based), whatever text or thinking blocks came before or
\* between the tool calls.
C30_IndexIsPosition ==
    (pc = "done" /\ resp # Nil)
        => \A k \in DOMAIN resp[1].tcalls : resp[1].tcalls[k].index = k - 1

\* C23: once the backend has failed an invocation (opening the call, or
\* receiving a frame, with an error that is not the end of the stream), the
\* invocation has returned that very error with a nil Response; nothing was
\* received, issued or called back after the failure, and the callbacks made
\* before it stand as they were.
C23_BackendFailureSurfaced ==
    failure # Nil
        => /\ pc = "done"
           /\ err = failure[1].err
           /\ resp = Nil
           /\ log = failure[1].log
           /\ Len(emitted) = failure[1].received
           /\ issued = failure[1].issued

\* a watched stream that delivered a delta and then failed on receive
C23_Witness ==
    /\ failure # Nil /\ mode = "stream" /\ hasWatcher
    /\ failure[1].err = ErrTransport /\ err = ErrTransport
    /\ Len(emitted) >= 1 /\ Len(log) >= 1
    /\ log[Len(log)].cb # "OnStop"

(***************************************************************************)
(* Two ChatCompletionStream invocations on one Model.  What an invocation  *)
(* declares in its body (openai.go 608-636, anthropic.go 148-170) is its   *)
(* own: options, ctx, stream, role, the three builders and callm; the      *)
(* Model (name, description, client) is all the two have in common.  One   *)
(* invocation runs in the call variables while the other is parked; Switch *)
(* hands the processor to the other one between any two steps.             *)
(***************************************************************************)
Locals ==
    [pc |-> pc, todo |-> todo, emitted |-> emitted, ctxDone |-> ctxDone,
     role |-> role, content |-> content, reasoning |-> reasoning,
     refusal |-> refusal, callm |-> callm, log |-> log, resp |-> resp,
     err |-> err, issued |-> issued, failure |-> failure]

FreshLocals ==
    [pc |-> "start", todo |-> <<>>, emitted |-> <<>>, ctxDone |-> FALSE,
     role |-> "", content |-> "", reasoning |-> "", refusal |-> "",
     callm |-> <<>>, log |-> <<>>, resp |-> Nil, err |-> "nil", issued |-> 0,
     failure |-> Nil]

\* Switch with callm held by the Model: both invocations write the same map
SwitchSharedAccumulator ==
    /\ parked # Nil
    /\ parked' = <<Locals>>
    /\ pc' = parked[1].pc /\ todo' = parked[1].todo /\ emitted' = parked[1].emitted
    /\ ctxDone' = parked[1].ctxDone /\ role' = parked[1].role
    /\ content' = parked[1].content /\ reasoning' = parked[1].reasoning
    /\ refusal' = parked[1].refusal /\ callm' = callm
    /\ log' = parked[1].log /\ resp' = parked[1].resp /\ err' = parked[1].err
    /\ issued' = parked[1].issued /\ failure' = parked[1].failure
    /\ UNCHANGED <<backend, mode, hasWatcher, reqVars, codecVars>>

Switch ==
    /\ parked # Nil
    /\ parked' = <<Locals>>
    /\ pc' = parked[1].pc /\ todo' = parked[1].todo /\ emitted' = parked[1].emitted
    /\ ctxDone' = parked[1].ctxDone /\ role' = parked[1].role
    /\ content' = parked[1].content /\ reasoning' = parked[1].reasoning
    /\ refusal' = parked[1].refusal /\ callm' = parked[1].callm
    /\ log' = parked[1].log /\ resp' = parked[1].resp /\ err' = parked[1].err
    /\ issued' = parked[1].issued /\ failure' = parked[1].failure
    /\ UNCHANGED <<backend, mode, hasWatcher, reqVars, codecVars>>

InitConcurrent ==
    /\ CallInit({"openai", "anthropic"}, {"stream"})
    /\ hasWatcher
    /\ ReqIdle /\ CodecIdle
    /\ issued = 0 /\ failure = Nil
    /\ parked = <<FreshLocals>>

NextConcurrent ==
    \/ Open
    \/ OpenAIRecv
    \/ AnthropicNext
    \/ OnContent
    \/ ToolCallStart
    \/ ToolCallArgs
    \/ ToolCallArgsNotFound
    \/ Stop
    \/ Switch

SpecConcurrent == InitConcurrent /\ [][NextConcurrent]_vars

\* C22: whichever of two interleaved streaming invocations holds the
\* processor, what it has assembled is what its own frames say: between two
\* frames callm holds exactly the calls its frames declared, each with the
\* latest id and name and the fragments received since, its watcher has seen
\* the deliverable deltas of its own frames in order and nothing else, and
\* the text buffer is the concatenation of its own text deltas; a Response
\* holds these calls and this text.
C22_InvocationsIsolated ==
    (parked # Nil /\ mode = "stream" /\ todo = <<>> /\ err = "nil")
        => /\ \A i \in Indices :
                 LET want == Received(HandledCalls, i, [declared |-> FALSE, frags |-> ""])
                 IN  /\ (i \in DOMAIN callm) = want.declared
                     /\ want.declared => LatestDeclared(callm[i])
           /\ InWireOrder
           /\ \A k \in 1..Handled : \A d \in WireDeltas(backend, emitted[k]) :
                 DeliveredAs(k, d) <=> ~Undeliverable(k, d)
           /\ content = FrameDeltas(emitted, "content")
           /\ Forwarded(log, "OnContent") = FrameDeltas(emitted, "content")
           /\ (pc = "done" /\ resp # Nil)
                 => /\ Content(resp[1].answer) = FrameDeltas(emitted, "content")
                    /\ Len(resp[1].tcalls) = Cardinality(DOMAIN callm)
                    /\ \A k \in DOMAIN resp[1].tcalls : LatestDeclared(resp[1].tcalls[k])

\* both invocations are in their frame loops, each holding its own call at
\* index 0 with its own fragment and its own text
C22_Witness ==
    /\ parked # Nil
    /\ pc = "loop" /\ todo = <<>> /\ parked[1].pc = "loop"
    /\ 0 \in DOMAIN callm /\ 0 \in DOMAIN parked[1].callm
    /\ callm[0].id = "i0" /\ Arguments(callm[0].fcall) = "b" /\ content = "c"
    /\ parked[1].callm[0].id = "j0" /\ Arguments(parked[1].callm[0].fcall) = ""
    /\ parked[1].content = ""

(***************************************************************************)
(* Chat options and request construction (options.go, makeRequest)         *)
(***************************************************************************)
MaxTokensTried == 1100

BudgetLow        == 1024
BudgetMedium     == 4096
BudgetHigh       == 8192
DefaultMaxTokens == 4096
ResponseReserve  == 64

ReasoningEffortLow    == "low"
ReasoningEffortMedium == "medium"
ReasoningEffortHigh   == "high"

MaxTokensValues ==
    (-1..MaxTokensTried)
    \cup {b + d : b \in {BudgetMedium, BudgetHigh},
                  d \in {-1, 0, 1, ResponseReserve, ResponseReserve + 1}}

ReasoningLevels ==
    {ReasoningEffortLow, ReasoningEffortMedium, ReasoningEffortHigh, "extreme"}

\* options := &ChatOptions{}
ZeroOptions == [prompt |-> "", tools |-> <<>>, maxTokens |-> Nil, reasoningLevel |-> Nil]

\* anthropic.go 308-318
BudgetOf(level) ==
    CASE level = ReasoningEffortLow    -> BudgetLow
      [] level = ReasoningEffortMedium -> BudgetMedium
      [] level = ReasoningEffortHigh   -> BudgetHigh
      [] OTHER                         -> BudgetMedium

\* CappedBudget capping only a budget above max_tokens
CappedBudgetAbove(budget, maxTokens) ==
    IF budget > maxTokens
    THEN IF maxTokens > ResponseReserve
         THEN maxTokens - ResponseReserve
         ELSE maxTokens - 1
    ELSE budget

\* CappedBudget leaving a very small max_tokens as the budget
CappedBudgetAtMax(budget, maxTokens) ==
    IF budget >= maxTokens
    THEN IF maxTokens > ResponseReserve
         THEN maxTokens - ResponseReserve
         ELSE maxTokens
    ELSE budget

\* anthropic.go 324-338
CappedBudget(budget, maxTokens) ==
    IF budget >= maxTokens
    THEN IF maxTokens > ResponseReserve
         THEN maxTokens - ResponseReserve
         ELSE maxTokens - 1
    ELSE budget

\* anthropic.go 282-343: MaxTokens and Thinking of the request
AnthropicMakeRequest(o) ==
    LET maxTokens == IF o.maxTokens # Nil THEN o.maxTokens[1] ELSE DefaultMaxTokens
        budget    == CappedBudget(BudgetOf(o.reasoningLevel[1]), maxTokens)
    IN  [MaxTokens |-> maxTokens,
         Thinking  |-> IF o.reasoningLevel # Nil /\ budget > 0 THEN <<budget>> ELSE Nil]

\* a request that takes any level string as the reasoning effort
OpenAIMakeRequestAnyLevel(o) ==
    [MaxCompletionTokens |-> IF o.maxTokens # Nil THEN o.maxTokens[1] ELSE 0,
     ReasoningEffort |-> IF o.reasoningLevel = Nil THEN "" ELSE o.reasoningLevel[1]]

\* openai.go 816-841: MaxCompletionTokens and ReasoningEffort of the request
OpenAIMakeRequest(o) ==
    [MaxCompletionTokens |-> IF o.maxTokens # Nil THEN o.maxTokens[1] ELSE 0,
     ReasoningEffort |->
        IF o.reasoningLevel = Nil THEN ""
        ELSE IF o.reasoningLevel[1] \in
                  {ReasoningEffortLow, ReasoningEffortMedium, ReasoningEffortHigh}
             THEN o.reasoningLevel[1]
             ELSE ReasoningEffortMedium]

(***************************************************************************)
(* Tools (tool.go 42-56, define.go, options.go WithTool)                   *)
(***************************************************************************)
\* tool.go 43-56
tool(type_, definition) == [type_ |-> type_, definition |-> definition]

\* jsonschema.Definition
Definition(type, props) == [shape |-> "jsonschema.Definition", Type |-> type, props |-> props]

\* define.go 75-79 and 89-93
EmptyDefinition == Definition("object", "")

\* values a caller hands to WithFunctionParameters: a jsonschema.Definition, an
\* anthropic.ToolInputSchemaParam, a map with or without a "type" key, a
\* string, and a channel
ParameterValues ==
    { Definition("object", "q"),
      [shape |-> "anthropic.ToolInputSchemaParam", Type |-> "object", props |-> "q"],
      [shape |-> "map",    Type |-> "object", props |-> "q"],
      [shape |-> "map",    Type |-> "",       props |-> "q"],
      [shape |-> "string", Type |-> "",       props |-> ""],
      [shape |-> "chan",   Type |-> "",       props |-> ""] }

\* json.Marshal of a parameters value: Nil when it fails; object tells a JSON
\* object from any other JSON value
MarshalParameters(v) ==
    IF v.shape = "chan" THEN Nil
    ELSE <<[object |-> v.shape # "string", Type |-> v.Type, props |-> v.props]>>

\* define.go 27-33
function(name, description, parameters, strict) ==
    [shape |-> "function", name |-> name, description |-> description,
     parameters |-> parameters, strict |-> strict]

\* define.go 55-109, for the options WithFunctionParameters and WithFunctionStrict
DefineFunction(name, description, parameters, strict) ==
    LET data == MarshalParameters(parameters[1])
        normalized ==
            IF parameters = Nil THEN EmptyDefinition
            ELSE IF parameters[1].shape = "jsonschema.Definition" THEN parameters[1]
            ELSE IF data = Nil THEN parameters[1]
            ELSE IF data[1].object /\ data[1].Type # ""
                 THEN Definition(data[1].Type, data[1].props)
                 ELSE EmptyDefinition
    IN  tool(ToolTypeFunction, function(name, description, <<normalized>>, strict))

\* openai.FunctionDefinition
OpenAIFunctionDefinition(name, description, parameters, strict) ==
    [shape |-> "openai.FunctionDefinition", Name |-> name, Description |-> description,
     Parameters |-> parameters, Strict |-> strict]

\* anthropic.ToolInputSchemaParam
ToolInputSchemaParam(type, props) == [Type |-> type, props |-> props]

\* anthropic.ToolParam
ToolParam(name, description, schema, strict) ==
    [shape |-> "anthropic.ToolParam", Name |-> name, Description |-> description,
     InputSchema |-> schema, Strict |-> strict]

\* the JSON object of a tool definition
DefinitionJSON(name, description, parameters, schema, strict) ==
    [object |-> TRUE, name |-> name, description |-> description,
     parameters |-> parameters, input_schema |-> schema, strict |-> strict]

\* a Definition() of a type neither backend knows, given by what json.Marshal
\* writes for it (Nil when it fails)
OtherDefinition(json) == [shape |-> "other", json |-> json]

\* json.Marshal(tool.Definition()): the exported fields of the value
MarshalDefinition(def) ==
    CASE def.shape = "other" -> def.json
      [] def.shape = "function" -> <<DefinitionJSON("", "", Nil, Nil, FALSE)>>
      [] def.shape = "openai.FunctionDefinition" ->
            IF def.Parameters = Nil
            THEN <<DefinitionJSON(def.Name, def.Description, Nil, Nil, def.Strict)>>
            ELSE IF MarshalParameters(def.Parameters[1]) = Nil THEN Nil
            ELSE <<DefinitionJSON(def.Name, def.Description,
                                  MarshalParameters(def.Parameters[1]), Nil, def.Strict)>>
      [] def.shape = "anthropic.ToolParam" ->
            <<DefinitionJSON(def.Name, def.Description, Nil,
                             <<[object |-> TRUE, Type |-> def.InputSchema.Type,
                                props |-> def.InputSchema.props]>>, def.Strict)>>

\* the tools a caller attaches with WithTool
Tools ==
       {DefineFunction("f", "about f", p, FALSE) :
            p \in {Nil} \cup {<<v>> : v \in ParameterValues}}
  \cup {tool(ToolTypeFunction,
             OpenAIFunctionDefinition("g", "about g", <<Definition("object", "q")>>, FALSE)),
        tool(ToolTypeFunction,
             ToolParam("h", "about h", ToolInputSchemaParam("object", "q"), FALSE)),
        tool(ToolTypeFunction, ToolParam("", "unnamed", ToolInputSchemaParam("object", ""), FALSE)),
        tool(ToolTypeFunction, OtherDefinition(Nil)),
        tool(ToolTypeFunction,
             OtherDefinition(<<[object |-> FALSE, name |-> "", description |-> "",
                                parameters |-> Nil, input_schema |-> Nil, strict |-> FALSE]>>)),
        tool(ToolTypeFunction,
             OtherDefinition(<<DefinitionJSON("k", "about k", Nil, Nil, FALSE)>>))}

\* openai.go 862-890: the entries one tool adds to req.Tools
OpenAIConvertTool(t) ==
    LET def  == t.definition
        data == MarshalDefinition(def)
        fn   == CASE def.shape = "openai.FunctionDefinition" ->
                        <<[Name |-> def.Name, Description |-> def.Description,
                           Parameters |-> def.Parameters, Strict |-> def.Strict]>>
                  [] def.shape = "function" ->
                        <<[Name |-> def.name, Description |-> def.description,
                           Parameters |-> def.parameters, Strict |-> def.strict]>>
                  [] OTHER ->
                        IF data # Nil /\ data[1].object
                        THEN <<[Name |-> data[1].name, Description |-> data[1].description,
                                Parameters |-> data[1].parameters, Strict |-> data[1].strict]>>
                        ELSE Nil
    IN  IF fn # Nil THEN <<[Type |-> t.type_, Function |-> fn[1]]>> ELSE <<>>

\* anthropic.go 378-396: InputSchema from the generic parameters
AnthropicInputSchema(parameters) ==
    LET data == MarshalParameters(parameters[1])
    IN  IF parameters # Nil /\ parameters[1].shape = "anthropic.ToolInputSchemaParam"
        THEN ToolInputSchemaParam(parameters[1].Type, parameters[1].props)
        ELSE IF parameters # Nil /\ data # Nil /\ data[1].object /\ data[1].Type # ""
             THEN ToolInputSchemaParam(data[1].Type, data[1].props)
             ELSE ToolInputSchemaParam("object", "")

\* anthropic.go 364-411: the entries one tool adds to req.Tools
AnthropicConvertTool(t) ==
    LET def  == t.definition
        data == MarshalDefinition(def)
        zero == [Name |-> "", Description |-> "", Strict |-> FALSE,
                 InputSchema |-> ToolInputSchemaParam("", "")]
        toolParam ==
            CASE def.shape = "anthropic.ToolParam" ->
                    [Name |-> def.Name, Description |-> def.Description,
                     Strict |-> def.Strict, InputSchema |-> def.InputSchema]
              [] def.shape = "function" ->
                    [Name |-> def.name, Description |-> def.description,
                     Strict |-> def.strict,
                     InputSchema |-> AnthropicInputSchema(def.parameters)]
              [] OTHER ->
                    IF data # Nil /\ data[1].object
                    THEN [Name |-> data[1].name, Description |-> data[1].description,
                          Strict |-> data[1].strict,
                          InputSchema |->
                              IF data[1].input_schema = Nil THEN ToolInputSchemaParam("", "")
                              ELSE ToolInputSchemaParam(data[1].input_schema[1].Type,
                                                        data[1].input_schema[1].props)]
                    ELSE zero
    IN  IF toolParam.Name # "" THEN <<toolParam>> ELSE <<>>

(***************************************************************************)
(* Messages of the request (convertMessage of either backend)              *)
(***************************************************************************)
\* openai.ChatCompletionMessage as openai.go 895-970 fills it
ChatCompletionMessage(r, con, multi, rea, tcs, tcid) ==
    [Role |-> r, Content |-> con, MultiContent |-> multi, ReasoningContent |-> rea,
     ToolCalls |-> tcs, ToolCallID |-> tcid]

\* a conversion that rejects a message of another implementation
OpenAIConvertMessageStrict(m) ==
    [msg |-> ChatCompletionMessage(Role(m), Content(m), <<>>, "", <<>>, ""),
     err |-> IF m.type # "llmmsg" THEN "unsupported message" ELSE "nil"]

\* openai.go 895-970
OpenAIConvertMessage(m) ==
    IF m.type # "llmmsg"
    THEN [msg |-> ChatCompletionMessage(Role(m), Content(m), <<>>, "", <<>>, ""),
          err |-> "nil"]
    ELSE LET isPureText == \A k \in DOMAIN m.content :
                               m.content[k].Type = ContentPartTypeText
             kept  == SelectSeq(m.content,
                          LAMBDA part : \/ part.Type = ContentPartTypeText
                                        \/ /\ part.Type = ContentPartTypeImageURL
                                           /\ part.ImageURL # Nil)
             multi == [k \in DOMAIN kept |->
                          IF kept[k].Type = ContentPartTypeText
                          THEN [Type |-> ContentPartTypeText, Text |-> kept[k].Text]
                          ELSE [Type |-> ContentPartTypeImageURL,
                                URL |-> kept[k].ImageURL[1].URL,
                                Detail |-> kept[k].ImageURL[1].Detail]]
             tcs   == [k \in DOMAIN m.toolcalls |->
                          OpenAIToolCall(<<m.toolcalls[k].index>>, m.toolcalls[k].id,
                                         ToolTypeFunction, m.toolcalls[k].fcall.name,
                                         Arguments(m.toolcalls[k].fcall))]
         IN  [msg |-> IF isPureText /\ Len(m.content) = 1
                      THEN ChatCompletionMessage(m.role, m.content[1].Text, <<>>,
                                                 m.reasoning, tcs, m.toolCallID)
                      ELSE ChatCompletionMessage(m.role, "", multi,
                                                 m.reasoning, tcs, m.toolCallID),
              err |-> "nil"]

\* argument strings json.Unmarshal reads as a JSON object
JSONObjects == {"{}"}

\* image URLs that start with http:// or https://
RemoteURLs == {"https://h/u3"}

\* anthropic.MessageParam
MessageParam(r, blocks) == [Role |-> r, Content |-> blocks]

\* anthropic.NewTextBlock
NewTextBlock(text) == [kind |-> "text", text |-> text]

\* anthropic.go 448-498: the image block of an image part (the media type
\* detection for inline data is left out)
NewImageBlock(imgURL) ==
    [kind |-> "image", source |-> IF imgURL \in RemoteURLs THEN "url" ELSE "base64",
     data |-> imgURL]

\* a tool-result block that loses the identifier
NewToolResultBlockNoID(toolUseID, result, isError) ==
    [kind |-> "tool_result", tool_use_id |-> "", content |-> result, is_error |-> isError]

\* anthropic.NewToolResultBlock
NewToolResultBlock(toolUseID, result, isError) ==
    [kind |-> "tool_result", tool_use_id |-> toolUseID, content |-> result,
     is_error |-> isError]

\* anthropic.go 418-542
AnthropicConvertMessage(m) ==
    IF m.type # "llmmsg"
    THEN [msg |-> MessageParam(RoleUser, <<NewTextBlock(Content(m))>>), err |-> "nil"]
    ELSE IF m.role = RoleTool
    THEN [msg |-> MessageParam(RoleUser,
                      <<NewToolResultBlock(m.toolCallID, Content(m), FALSE)>>),
          err |-> "nil"]
    ELSE LET kept   == SelectSeq(m.content,
                           LAMBDA part : \/ part.Type = ContentPartTypeText
                                         \/ /\ part.Type = ContentPartTypeImageURL
                                            /\ part.ImageURL # Nil)
             parts  == [k \in DOMAIN kept |->
                           IF kept[k].Type = ContentPartTypeText
                           THEN NewTextBlock(kept[k].Text)
                           ELSE NewImageBlock(kept[k].ImageURL[1].URL)]
             calls  == SelectSeq(m.toolcalls, LAMBDA tc : tc.type_ = ToolTypeFunction)
             uses   == [k \in DOMAIN calls |->
                           [kind |-> "tool_use", id |-> calls[k].id,
                            name |-> calls[k].fcall.name,
                            input |-> IF Arguments(calls[k].fcall) \in JSONObjects
                                      THEN Arguments(calls[k].fcall) ELSE "{}"]]
             blocks == parts \o uses
         IN  [msg |-> CASE m.role = RoleUser ->
                              MessageParam(RoleUser,
                                  IF blocks = <<>> THEN <<NewTextBlock("")>> ELSE blocks)
                        [] m.role = RoleAssistant ->
                              MessageParam(RoleAssistant,
                                  IF blocks = <<>> THEN <<NewTextBlock("")>> ELSE blocks)
                        [] OTHER ->
                              MessageParam(RoleUser, <<NewTextBlock(Content(m))>>),
              err |-> "nil"]

\* the message lists a caller passes
MessageLists ==
    { <<>>,
      <<NewUserMessage("hi", <<>>)>>,
      <<NewSystemMessage("hi"),
        NewUserMessage("hi", <<WithImageURL("u1"), WithImageURL("https://h/u3")>>)>>,
      <<NewUserMessage("hi", <<>>), NewAssistantMessage("", <<CallWhole, CallStreamed>>),
        NewToolMessage(CallWhole, "hi")>>,
      <<baseMessage(RoleUser, "hi"), NewUserMessage("", <<>>)>>,
      <<message(RoleUser,
                <<[Type |-> ContentPartTypeImageURL, Text |-> "", ImageURL |-> Nil]>>,
                "", "", <<>>, "")>> }

\* the error of the first message convertMessage rejects, "nil" when there is none
FirstError(results) ==
    LET bad == {k \in DOMAIN results : results[k].err # "nil"}
    IN  IF bad = {} THEN [at |-> Len(results) + 1, err |-> "nil"]
        ELSE LET k == CHOOSE i \in bad : \A j \in bad : i <= j
             IN  [at |-> k, err |-> results[k].err]

\* a system entry added for an empty prompt as well
OpenAISystemMessageAlways(o) ==
    <<ChatCompletionMessage(RoleSystem, o.prompt, <<>>, "", <<>>, "")>>

\* openai.go 843-848
OpenAISystemMessage(o) ==
    IF o.prompt # ""
    THEN <<ChatCompletionMessage(RoleSystem, o.prompt, <<>>, "", <<>>, "")>>
    ELSE <<>>

\* openai.go 816-892: "return req, err" at the first rejected message, else all
\* messages after the system prompt, then the tools
OpenAIRequest(o, msgs) ==
    LET base    == OpenAIMakeRequest(o)
        results == [k \in DOMAIN msgs |-> OpenAIConvertMessage(msgs[k])]
        first   == FirstError(results)
    IN  [req |-> [MaxCompletionTokens |-> base.MaxCompletionTokens,
                  ReasoningEffort |-> base.ReasoningEffort,
                  Messages |-> OpenAISystemMessage(o) \o [k \in 1..(first.at - 1) |-> results[k].msg],
                  Tools |-> IF first.err # "nil" THEN <<>>
                            ELSE Concat([k \in DOMAIN o.tools |->
                                            OpenAIConvertTool(o.tools[k])])],
         err |-> first.err]

\* anthropic.go 282-413
AnthropicRequest(o, msgs) ==
    LET base    == AnthropicMakeRequest(o)
        results == [k \in DOMAIN msgs |-> AnthropicConvertMessage(msgs[k])]
        first   == FirstError(results)
    IN  [req |-> [MaxTokens |-> base.MaxTokens,
                  Thinking |-> base.Thinking,
                  System |-> IF o.prompt # "" THEN <<[Text |-> o.prompt]>> ELSE <<>>,
                  Messages |-> IF first.err # "nil" THEN <<>>
                               ELSE [k \in DOMAIN results |-> results[k].msg],
                  Tools |-> IF first.err # "nil" THEN <<>>
                            ELSE Concat([k \in DOMAIN o.tools |->
                                            AnthropicConvertTool(o.tools[k])])],
         err |-> first.err]

\* makeRequest of the backend
makeRequest(b, o, msgs) ==
    IF b = "anthropic" THEN AnthropicRequest(o, msgs) ELSE OpenAIRequest(o, msgs)

InitRequest ==
    /\ CallIdle({"openai", "anthropic"})
    /\ pc = "options"
    /\ opts = ZeroOptions
    /\ req = Nil
    /\ messages = <<>>
    /\ applied = <<>>
    /\ invocation = 1
    /\ CodecIdle /\ SideIdle

\* options.go 52-55, applied by the loop "for _, opt := range opts { opt(options) }"
WithMaxTokens ==
    /\ pc = "options"
    /\ \E n \in MaxTokensValues : opts' = [opts EXCEPT !.maxTokens = <<n>>]
    /\ UNCHANGED <<callVars, req, messages, applied, invocation, codecVars, sideVars>>

\* options.go 33-35
WithReasoning ==
    /\ pc = "options"
    /\ \E level \in ReasoningLevels : opts' = [opts EXCEPT !.reasoningLevel = <<level>>]
    /\ UNCHANGED <<callVars, req, messages, applied, invocation, codecVars, sideVars>>

\* req, err := makeRequest(options, messages)
MakeRequest ==
    /\ pc = "options"
    /\ req' = <<makeRequest(backend, opts, messages).req>>
    /\ err' = makeRequest(backend, opts, messages).err
    /\ pc' = "built"
    /\ UNCHANGED <<backend, mode, hasWatcher, todo, emitted, ctxDone, role, content,
                   reasoning, refusal, callm, log, resp>>
    /\ UNCHANGED <<opts, messages, applied, invocation, codecVars, sideVars>>

NextRequest == WithMaxTokens \/ WithReasoning \/ MakeRequest

SpecRequest == InitRequest /\ [][NextRequest]_vars

(***************************************************************************)
(* One Model used for several invocations, each with its own options       *)
(***************************************************************************)
MaxOptions == 2

MaxInvocations == 2

Prompts == {"p", "q"}

InitBuild ==
    /\ CallIdle({"openai", "anthropic"})
    /\ pc = "options"
    /\ opts = ZeroOptions
    /\ req = Nil
    /\ messages \in MessageLists
    /\ applied = <<>>
    /\ invocation = 1
    /\ CodecIdle /\ SideIdle

\* options.go 37-40
WithSystemPrompt ==
    /\ pc = "options" /\ Len(applied) < MaxOptions
    /\ \E prompt \in Prompts :
          /\ opts' = [opts EXCEPT !.prompt = prompt]
          /\ applied' = Append(applied, [option |-> "WithSystemPrompt", prompt |-> prompt])
    /\ UNCHANGED <<callVars, req, messages, invocation, codecVars, sideVars>>

\* options.go 42-45
WithTool ==
    /\ pc = "options" /\ Len(applied) < MaxOptions
    /\ \E t \in Tools :
          /\ opts' = [opts EXCEPT !.tools = @ \o <<t>>]
          /\ applied' = Append(applied, [option |-> "WithTool", tools |-> <<t>>])
    /\ UNCHANGED <<callVars, req, messages, invocation, codecVars, sideVars>>

\* an invocation that keeps the options of the one before it
NextInvocationShared ==
    /\ pc = "built" /\ invocation < MaxInvocations
    /\ invocation' = invocation + 1
    /\ pc' = "options"
    /\ applied' = <<>>
    /\ req' = Nil
    /\ err' = "nil"
    /\ messages' \in MessageLists
    /\ UNCHANGED <<backend, mode, hasWatcher, todo, emitted, ctxDone, role, content,
                   reasoning, refusal, callm, log, resp>>
    /\ UNCHANGED <<opts, codecVars, sideVars>>

\* the next ChatCompletion / ChatCompletionStream on the same Model:
\* "options := &ChatOptions{}" (openai.go 607-612, anthropic.go 147-152)
NextInvocation ==
    /\ pc = "built" /\ invocation < MaxInvocations
    /\ invocation' = invocation + 1
    /\ pc' = "options"
    /\ opts' = ZeroOptions
    /\ applied' = <<>>
    /\ req' = Nil
    /\ err' = "nil"
    /\ messages' \in MessageLists
    /\ UNCHANGED <<backend, mode, hasWatcher, todo, emitted, ctxDone, role, content,
                   reasoning, refusal, callm, log, resp>>
    /\ UNCHANGED <<codecVars, sideVars>>

NextBuild == WithSystemPrompt \/ WithTool \/ MakeRequest \/ NextInvocation

SpecBuild == InitBuild /\ [][NextBuild]_vars

\* C24: makeRequest of either backend returns a request and a nil error for
\* every list of tools (backend-native, portable, or of any other type, also
\* one whose re-encoding fails) and every list of messages.
C24_MakeRequestNeverFails ==
    pc = "built" => req # Nil /\ err = "nil"

C24_Witness ==
    /\ pc = "built" /\ err = "nil" /\ req # Nil
    /\ \E k \in DOMAIN opts.tools : opts.tools[k] = tool(ToolTypeFunction, OtherDefinition(Nil))
    /\ \E k \in DOMAIN messages : messages[k].type # "llmmsg"

\* the name and description a native tool entry carries
EntryName(b, entry) == IF b = "anthropic" THEN entry.Name ELSE entry.Function.Name

EntryDescription(b, entry) ==
    IF b = "anthropic" THEN entry.Description ELSE entry.Function.Description

\* C25: the native request's tool list has exactly one entry per tool attached
\* with WithTool, in option order, and a tool made by DefineFunction appears
\* with its name and description; no attached tool is omitted.
C25_EveryToolConverted ==
    pc = "built"
        => /\ Len(req[1].Tools) = Len(opts.tools)
           /\ \A k \in DOMAIN opts.tools :
                 opts.tools[k].definition.shape = "function"
                     => /\ EntryName(backend, req[1].Tools[k]) = opts.tools[k].definition.name
                        /\ EntryDescription(backend, req[1].Tools[k])
                               = opts.tools[k].definition.description

\* C26: the native message sequence holds one native message per input
\* message, in the same order; a non-empty system prompt is one extra leading
\* system-role entry for OpenAI and is placed only in the System field for
\* Anthropic; an empty prompt adds nothing.
C26_OneNativeMessagePerInput ==
    pc = "built"
        => LET native == req[1].Messages
               lead   == IF backend # "anthropic" /\ opts.prompt # "" THEN 1 ELSE 0
           IN  /\ Len(native) = Len(messages) + lead
               /\ \A k \in DOMAIN messages :
                     native[lead + k] =
                        IF backend = "anthropic"
                        THEN AnthropicConvertMessage(messages[k]).msg
                        ELSE OpenAIConvertMessage(messages[k]).msg
               /\ backend # "anthropic" /\ lead = 1
                     => native[1].Role = RoleSystem /\ native[1].Content = opts.prompt
               /\ backend = "anthropic"
                     => /\ req[1].System =
                              IF opts.prompt # "" THEN <<[Text |-> opts.prompt]>> ELSE <<>>
                        /\ \A k \in DOMAIN native : native[k].Role # RoleSystem

C26_Witness ==
    /\ pc = "built" /\ backend = "openai"
    /\ opts.prompt = "q" /\ Len(messages) = 3
    /\ Len(req[1].Messages) = 4
    /\ req[1].Messages[1].Content = "q"
    /\ req[1].Messages[4].Role = RoleTool

\* the prompt options among the options applied
PromptsOf(options) == SelectSeq(options, LAMBDA o : o.option = "WithSystemPrompt")

\* the tools of the tool options among the options applied, in order
ToolsOf(options) ==
    Concat([k \in DOMAIN options |->
               IF options[k].option = "WithTool" THEN options[k].tools ELSE <<>>])

\* C29: the options a call works with are those passed to this call, applied
\* in order to a fresh zero ChatOptions: the prompt is that of the last prompt
\* option (none: empty), the tools are those of the tool options in order,
\* and nothing of an earlier call on the same Model is left in them.
C29_OptionsOfThisCallOnly ==
    pc \in {"options", "built"}
        => /\ opts.prompt = IF PromptsOf(applied) = <<>> THEN ""
                            ELSE PromptsOf(applied)[Len(PromptsOf(applied))].prompt
           /\ opts.tools = ToolsOf(applied)
           /\ opts.maxTokens = Nil /\ opts.reasoningLevel = Nil

\* the second call on a Model, given one tool option: its request carries
\* that tool and no prompt
C29_Witness ==
    /\ pc = "built" /\ invocation = 2
    /\ Len(applied) = 1 /\ applied[1].option = "WithTool"
    /\ opts.prompt = "" /\ Len(opts.tools) = 1
    /\ req[1].Tools # <<>>

\* C31: in an Anthropic request every unified message with role "tool" is one
\* user-role native message holding a single tool-result block with the
\* message's tool-call identifier and its Content(), marked as non-error; the
\* native message of any other message holds no tool-result block.
C31_ToolMessageIsToolResult ==
    (pc = "built" /\ backend = "anthropic")
        => \A k \in DOMAIN messages :
              IF messages[k].type = "llmmsg" /\ Role(messages[k]) = RoleTool
              THEN /\ req[1].Messages[k].Role = RoleUser
                   /\ Len(req[1].Messages[k].Content) = 1
                   /\ req[1].Messages[k].Content[1].kind = "tool_result"
                   /\ req[1].Messages[k].Content[1].tool_use_id = ToolCallIDOf(messages[k])
                   /\ req[1].Messages[k].Content[1].content = Content(messages[k])
                   /\ req[1].Messages[k].Content[1].is_error = FALSE
              ELSE \A i \in DOMAIN req[1].Messages[k].Content :
                      req[1].Messages[k].Content[i].kind # "tool_result"

C31_Witness ==
    /\ pc = "built" /\ backend = "anthropic"
    /\ Len(messages) = 3 /\ Role(messages[3]) = RoleTool
    /\ req[1].Messages[3].Content[1].kind = "tool_result"
    /\ req[1].Messages[3].Content[1].tool_use_id = "call_0"
    /\ req[1].Messages[3].Content[1].content = "hi"

LowOnAnthropic ==
    /\ backend = "anthropic" /\ pc = "built"
    /\ opts.reasoningLevel = <<ReasoningEffortLow>>

\* C10 as stated: with level low the budget is 1024 for max_tokens >= 1088 or
\* unset, max_tokens - 64 for 64 < max_tokens < 1088, max_tokens - 1 for
\* max_tokens <= 64.
C10_LowBudgetBelow1088 ==
    LowOnAnthropic
        => LET mt == req[1].MaxTokens
           IN  req[1].Thinking =
                  IF opts.maxTokens = Nil \/ mt >= BudgetLow + ResponseReserve
                  THEN <<BudgetLow>>
                  ELSE IF mt > ResponseReserve THEN <<mt - ResponseReserve>>
                  ELSE <<mt - 1>>

\* C10 amended: with level low the budget is 1024 for max_tokens > 1024 or
\* unset, max_tokens - 64 for 64 < max_tokens <= 1024, max_tokens - 1 for
\* 1 < max_tokens <= 64, and thinking is not enabled for max_tokens <= 1.
C10_LowBudgetCapped ==
    LowOnAnthropic
        => LET mt == req[1].MaxTokens
           IN  req[1].Thinking =
                  IF opts.maxTokens = Nil \/ mt > BudgetLow THEN <<BudgetLow>>
                  ELSE IF mt > ResponseReserve THEN <<mt - ResponseReserve>>
                  ELSE IF mt > 1 THEN <<mt - 1>>
                  ELSE Nil

\* max_tokens between 1024 and 1088: the budget stays 1024
C10_Witness ==
    /\ LowOnAnthropic
    /\ opts.maxTokens = <<BudgetLow + 1>>
    /\ req[1].Thinking = <<BudgetLow>>

\* C11: whenever thinking is enabled in the Anthropic request, its budget b
\* satisfies 0 < b < max_tokens (set or defaulted to 4096); b is the base value
\* of the level (low 1024, medium 4096, high 8192, any other level as medium)
\* when that is below max_tokens and is never above it.
C11_BudgetBelowMaxTokens ==
    (backend = "anthropic" /\ pc = "built" /\ req[1].Thinking # Nil)
        => LET b     == req[1].Thinking[1]
               level == opts.reasoningLevel[1]
               base  == CASE level = "low"  -> 1024
                          [] level = "high" -> 8192
                          [] OTHER          -> 4096
               mt    == IF opts.maxTokens = Nil THEN 4096 ELSE opts.maxTokens[1]
           IN  /\ opts.reasoningLevel # Nil
               /\ req[1].MaxTokens = mt
               /\ 0 < b /\ b < mt
               /\ b <= base
               /\ base < mt => b = base

\* an unknown level with max_tokens left at its default: the medium budget,
\* capped below the default
C11_Witness ==
    /\ backend = "anthropic" /\ pc = "built"
    /\ opts.reasoningLevel = <<"extreme">> /\ opts.maxTokens = Nil
    /\ req[1].Thinking = <<DefaultMaxTokens - ResponseReserve>>

\* C32: the OpenAI request's reasoning effort is the level given when that is
\* low, medium or high, is medium for any other level string, and is unset
\* when no reasoning option was given.
C32_ReasoningEffortPassThrough ==
    (pc = "built" /\ backend = "openai")
        => req[1].ReasoningEffort =
              IF opts.reasoningLevel = Nil THEN ""
              ELSE IF opts.reasoningLevel[1] \in {"low", "medium", "high"}
                   THEN opts.reasoningLevel[1]
                   ELSE "medium"

\* a level outside the three known ones
C32_Witness ==
    /\ pc = "built" /\ backend = "openai"
    /\ opts.reasoningLevel = <<"extreme">>
    /\ req[1].ReasoningEffort = ReasoningEffortMedium

\* the (url, detail) pairs a caller asks for with WithImageURLDetail
ImageRequests ==
    {<<>>, <<<<"u1", "auto">>>>, <<<<"u1", "huge">>, <<"u2", "auto">>>>}

\* C33: the message NewUserMessage builds from a text and image options holds
\* one image part per option, in option order and before the text part, each
\* with the url asked for and a detail in {low, high, auto}: the detail asked
\* for when it is one of the three, auto otherwise.
C33_ImageDetailNormalised ==
    msg # Nil
        => \A t \in Texts, asked \in ImageRequests :
              msg[1] = NewUserMessage(t, [k \in DOMAIN asked |->
                                             WithImageURLDetail(asked[k][1], asked[k][2])])
                  => /\ asked # <<>> =>
                           /\ Len(msg[1].content) = Len(asked) + (IF t # "" THEN 1 ELSE 0)
                           /\ t # "" => msg[1].content[Len(asked) + 1] = TextPart(t)
                     /\ \A k \in DOMAIN asked :
                           /\ msg[1].content[k].Type = ContentPartTypeImageURL
                           /\ msg[1].content[k].ImageURL[1].URL = asked[k][1]
                           /\ msg[1].content[k].ImageURL[1].Detail \in {"low", "high", "auto"}
                           /\ msg[1].content[k].ImageURL[1].Detail =
                                 IF asked[k][2] \in {"low", "high", "auto"}
                                 THEN asked[k][2] ELSE "auto"

\* two images, the first asked for with detail "huge", and a text
C33_Witness ==
    /\ pc = "message"
    /\ msg[1] = NewUserMessage("hi", <<WithImageURLDetail("u1", "huge"), WithImageURL("u2")>>)
    /\ Len(msg[1].content) = 3
    /\ msg[1].content[1].ImageURL[1].Detail = ImageURLDetailAuto
    /\ msg[1].content[3] = TextPart("hi")

\* the tool calls of Response.ToolCalls(), as (index, id, kind, name, arguments)
ResponseCalls(r) ==
    [k \in DOMAIN r.tcalls |->
        <<r.tcalls[k].index, r.tcalls[k].id, r.tcalls[k].type_,
          r.tcalls[k].fcall.name, Arguments(r.tcalls[k].fcall)>>]

\* C34: the tool calls inside the answer of a returned Response and those of
\* Response.ToolCalls() agree element by element, in order, on (index, id,
\* type, name, arguments), for streaming and blocking calls, and once the
\* call has returned the Response is not changed any more.
C34_AnswerAndToolCallsAgree ==
    /\ [](resp # Nil => CallsOf(resp[1].answer) = ResponseCalls(resp[1]))
    /\ [][pc = "done" => resp' = resp]_vars

\* a streamed answer with two tool calls, one with streamed arguments
C34_Witness ==
    /\ mode = "stream" /\ pc = "done" /\ resp # Nil
    /\ Len(resp[1].tcalls) = 2
    /\ \E k \in 1..2 : resp[1].tcalls[k].fcall.buff # ""
    /\ CallsOf(resp[1].answer) = ResponseCalls(resp[1])

\* the function tool calls with a name in a blocking backend answer, in answer
\* order, as (id, name, arguments)
AnsweredCalls(b, chatResp) ==
    IF b = "anthropic"
    THEN LET uses == SelectSeq(chatResp.Content,
                               LAMBDA blk : blk.kind = "tool_use" /\ blk.name # "")
         IN  [k \in DOMAIN uses |-> <<uses[k].id, uses[k].name, uses[k].input[1]>>]
    ELSE LET calls == SelectSeq(chatResp.Choices[1].ToolCalls,
                                LAMBDA call : call.Type = ToolTypeFunction /\ call.Name # "")
         IN  [k \in DOMAIN calls |-> <<calls[k].ID, calls[k].Name, calls[k].Arguments>>]

\* C35: the Response of a blocking call holds one tool call for every function
\* tool call with a non-empty name of the backend's answer, in answer order,
\* with the same id, name and arguments; none is dropped, also not one whose
\* index the backend left out.
C35_BlockingKeepsEveryCall ==
    (mode = "block" /\ pc = "done" /\ resp # Nil)
        => [k \in DOMAIN resp[1].tcalls |->
               <<resp[1].tcalls[k].id, resp[1].tcalls[k].fcall.name,
                 Arguments(resp[1].tcalls[k].fcall)>>]
           = AnsweredCalls(backend, emitted[1])

\* C36: EncodeMessage returns a payload for every message the library builds
\* (answers of blocking and streaming calls, also with tool calls whose index
\* the backend left out, factory-built messages, decoded messages) and never
\* panics.
C36_EncodeNeverPanics ==
    /\ pc # "panic"
    /\ pc \in {"encoded", "decoded"} => wire # Nil

\* C37: for every message m and every supported selector B, encoding the
\* message DecodeMessage(EncodeMessage(m), B) returns gives the payload
\* EncodeMessage(m) again: role, text, tool-call id, tool calls and image
\* parts are the same.
C37_ReencodingStable ==
    (pc = "decoded" /\ target \in Supported /\ wire[1] = EncodeMessage(msg[1]))
        => /\ ~DerefNil(decoded[1])
           /\ EncodeMessage(decoded[1]) = wire[1]

\* a frame without usable payload: an OpenAI frame with zero choices or with
\* nothing but tool-call deltas that lack an index; an Anthropic event that is
\* neither message_start nor content_block_start nor content_block_delta
Unusable(b, f) ==
    IF b = "anthropic"
    THEN f.type \notin {"message_start", "content_block_start", "content_block_delta"}
    ELSE \/ f.choices = 0
         \/ /\ f.role = "" /\ f.reasoning = "" /\ f.content = "" /\ f.refusal = ""
            /\ \A k \in DOMAIN f.tcs : f.tcs[k].index = Nil

\* C38: the step of a streaming call that receives a frame without usable
\* payload invokes no watcher callback, leaves role, the text, reasoning and
\* refusal buffers and callm unchanged, queues nothing to handle, and leaves
\* the call in its frame loop, ready for the next frame.
C38_UnusableFrameSkipped ==
    [][(mode = "stream" /\ emitted' # emitted
            /\ Unusable(backend, emitted'[Len(emitted')]))
          => /\ UNCHANGED <<role, content, reasoning, refusal, callm, log>>
             /\ todo' = <<>>
             /\ pc' = "loop" /\ resp' = Nil /\ err' = "nil"]_vars

\* an unusable frame received after a text delta was delivered
C38_Witness ==
    /\ mode = "stream" /\ pc = "loop" /\ todo = <<>>
    /\ Len(emitted) >= 2 /\ Unusable(backend, emitted[Len(emitted)])
    /\ ~Unusable(backend, emitted[1])
    /\ content # "" /\ log # <<>>

\* the OnToolCall invocations for the call at the index, among the first n of the log
OfCall(n, index) ==
    {j \in 1..n : log[j].cb = "OnToolCall" /\ log[j].tc.index = index}

\* the invocation that declared the call current at the k-th invocation
DeclaredAt(k) ==
    LET starts == {j \in OfCall(k - 1, log[k].tc.index) : log[j].kind = "start"}
    IN  IF starts = {} THEN 0
        ELSE CHOOSE j \in starts : \A i \in starts : i <= j

\* the fragments of invocations lo+1..hi made for the call at the index, concatenated
RECURSIVE FragmentsBetween(_, _, _)
FragmentsBetween(lo, hi, index) ==
    IF hi <= lo THEN ""
    ELSE FragmentsBetween(lo, hi - 1, index)
         \o (IF hi \in OfCall(hi, index) /\ log[hi].kind = "args"
             THEN log[hi].chunk ELSE "")

\* C39: every OnToolCall callback made for an argument fragment is handed a
\* ToolCall whose Arguments() is the concatenation of the fragments received
\* before it for that call, and a fragment whose callback returned an error
\* is not in the call's arguments.
C39_CallbackBeforeAppend ==
    \A k \in DOMAIN log :
        (log[k].cb = "OnToolCall" /\ log[k].kind = "args") =>
            /\ Arguments(log[k].tc.fcall)
                   = FragmentsBetween(DeclaredAt(k), k - 1, log[k].tc.index)
            /\ log[k].ret # "nil" => callm[log[k].tc.index] = log[k].tc

\* a second fragment of a call was delivered, and a fragment's callback failed
C39_Witness ==
    /\ pc = "done" /\ err \in WatcherErrs
    /\ \E k \in DOMAIN log :
          /\ log[k].cb = "OnToolCall" /\ log[k].kind = "args" /\ log[k].chunk # ""
          /\ log[k].ret # "nil"
          /\ Arguments(log[k].tc.fcall) # ""

====
